---- MODULE Spec2Model ----
(***************************************************************************)
(* binfuse::sharded_filter: a file of up to 2^shard_bits binary fuse       *)
(* filters behind a 16 byte tag and an offset index, written by a sink     *)
(* handle (add, stream_prepare/stream_add/stream_finalize) and read by a   *)
(* source handle (set_filename, contains, shards).                         *)
(*                                                                         *)
(* Representation.                                                         *)
(*  - a 64 bit key is <<hi, lo>>: hi its top 16 bits, lo its low 48 bits,  *)
(*    so key = hi * 2^48 + lo; with shard_bits <= 16 the shift             *)
(*    key >> (64 - shard_bits) is hi \div 2^(16 - shard_bits);             *)
(*  - a byte of the tag is its ASCII code;                                 *)
(*  - the offset (offset_t)-1 (all ones) is written -1;                    *)
(*  - a vector of max_shards() entries is [len, ent]: its size and the     *)
(*    entries that differ from the fill value (empty_offset, or a default  *)
(*    constructed filter);                                                 *)
(*  - a file is its size, its 16 tag bytes, the index table (the entries   *)
(*    that are not empty_offset) and the serialized filters by offset;     *)
(*    bytes that resize_file added and nobody wrote are zero.              *)
(***************************************************************************)
EXTENDS Integers, Sequences, FiniteSets, TLC

VARIABLES file, sink, source, sinkW, sourceW, ret, hist

vars == <<file, sink, source, sinkW, sourceW, ret, hist>>

(***************************************************************************)
(* Bounds of the model                                                     *)
(***************************************************************************)
\* a filter handed to add holds at most MaxFilterKeys keys
MaxFilterKeys == 1
\* add (called directly or by the streaming calls) runs at most MaxAdds times
MaxAdds == 3
\* stream_add is called at most MaxStreamAdds times
MaxStreamAdds == 3
\* stream_finalize is called at most MaxFinalizes times
MaxFinalizes == 1
\* add runs at most MaxHeaderAdds times while files are opened with every
\* shard_bits
MaxHeaderAdds == 1
\* add runs at most MaxRangeAdds times while it is called with prefixes
\* >= max_shards()
MaxRangeAdds == 3
\* add runs at most MaxCorruptAdds times on files that were found damaged
MaxCorruptAdds == 2

\* top 16 bits of the keys: one per slot at shard_bits = 1
KeyHis == {0, 32768}
\* low 48 bits of the keys
KeyLos == {0, 1}
Keys == {<<hi, lo>> : hi \in KeyHis, lo \in KeyLos}
\* shard_bits handed to the constructor or set_filename
ShardBits == {1, 14}
AllShardBits == 1..16
Widths == {8, 16}

(***************************************************************************)
(* Arithmetic helpers                                                      *)
(***************************************************************************)
RECURSIVE Pow2(_)
Pow2(n) == IF n = 0 THEN 1 ELSE 2 * Pow2(n - 1)

\* operator<= on std::uint64_t
KeyLessOrEqual(a, b) == a[1] < b[1] \/ (a[1] = b[1] /\ a[2] <= b[2])

\* operator< on std::uint64_t
KeyLess(a, b) == a[1] < b[1] \/ (a[1] = b[1] /\ a[2] < b[2])

empty_offset == -1
header_length == 16
index_start == 16
OffsetBytes == 8

\* extract_prefix that rounds up
extract_prefix_rounding_up(key, shard_bits) ==
  (key[1] + Pow2(16 - shard_bits) - 1) \div Pow2(16 - shard_bits)

max_shards(shard_bits) == Pow2(shard_bits)
index_length(shard_bits) == OffsetBytes * max_shards(shard_bits)
filter_index_offset(prefix) == index_start + OffsetBytes * prefix
extract_prefix(key, shard_bits) == key[1] \div Pow2(16 - shard_bits)

(***************************************************************************)
(* The tag: type_id, create_filetag, check_type_id, check_max_shards       *)
(***************************************************************************)
Digit(d) == 48 + d
IsDigit(c) == c >= 48 /\ c <= 57

RECURSIVE Decimal(_)
\* operator<< of an unsigned value: its decimal digits, most significant first
Decimal(n) == IF n < 10 THEN <<Digit(n)>> ELSE Append(Decimal(n \div 10), Digit(n % 10))

RECURSIVE PadLeft(_, _)
\* std::setfill('0') << std::setw(w): pads to AT LEAST w characters
PadLeft(s, w) == IF Len(s) >= w THEN s ELSE PadLeft(<<Digit(0)>> \o s, w)

sbinfuse == <<115, 98, 105, 110, 102, 117, 115, 101>>

type_id(w) == sbinfuse \o PadLeft(Decimal(w), 2)

filetag(w, shard_bits) == type_id(w) \o <<45>> \o PadLeft(Decimal(max_shards(shard_bits)), 4)

RECURSIVE from_chars(_, _)
\* std::from_chars on [first, last): the leading decimal digits, accumulated
\* into acc; stops at the first non digit (value stays 0 if there is none)
from_chars(s, acc) ==
  IF s = <<>> \/ ~IsDigit(Head(s)) THEN acc
  ELSE from_chars(Tail(s), 10 * acc + (Head(s) - 48))

(***************************************************************************)
(* binfuse::filter: the wrapper of one binary_fuse8_t / binary_fuse16_t.   *)
(* The upstream construction is not part of the repository; a filter is    *)
(* the key set it was populated from plus the other keys its fingerprint   *)
(* array happens to accept (false positives), fixed when it is built.      *)
(***************************************************************************)
EmptyFn == [x \in {} |-> 0]

\* filter(): fil_{} zero initialised
DefaultFilter == [SegmentCount |-> 0, ArrayLength |-> 0, keys |-> {}, fp |-> {}]

\* filter(keys) -> populate: allocate(keys.size()) sizes the fingerprint
\* array and leaves SegmentCount >= 1, also for no keys at all
populate(keys, n, fp) ==
  [SegmentCount |-> 1, ArrayLength |-> IF n <= 2 THEN 12 ELSE 24, keys |-> keys, fp |-> fp]

is_populated(flt) == flt.SegmentCount > 0

\* the size of the struct fields alone
serialization_bytes_of_fields(flt, w) == 28

\* the struct fields followed by ArrayLength fingerprints of w bits
serialization_bytes(flt, w) == 28 + flt.ArrayLength * (w \div 8)

\* what serialize leaves in the buffer
serialize(flt) == flt

\* the false positives a build over keys may end up with: none, or the
\* key 0x8000000000000000
FalsePositives(keys) == {{}} \cup {{k} : k \in {<<32768, 0>>} \ keys}

(***************************************************************************)
(* Files and handles                                                       *)
(***************************************************************************)
NoFile == [exists |-> FALSE, size |-> 0, hdr |-> <<>>, ix |-> EmptyFn, body |-> EmptyFn]

\* a default constructed sharded_filter
DefaultHandle ==
  [filepath |-> FALSE, shard_bits |-> 8, shards_ |-> 0,
   index |-> [len |-> 0, ent |-> EmptyFn],
   filters |-> [len |-> 0, ent |-> EmptyFn],
   mapped |-> FALSE, ub |-> FALSE,
   stream_keys_ |-> <<>>, stream_last_prefix_ |-> 0, stream_last_key_ |-> <<0, 0>>]

\* the running state of one call: the handle, the file, the fingerprint
\* width of the handle's FilterType and the exception thrown, if any
Call(h, f, w) == [h |-> h, f |-> f, w |-> w, err |-> "ok"]

Throw(m, e) == [m EXCEPT !.err = e]

\* the rest of a function body runs unless an exception is on its way
Then(m, Op(_)) == IF m.err = "ok" THEN Op(m) ELSE m

Restrict(fn, S) == [x \in (DOMAIN fn) \cap S |-> fn[x]]

\* get_from_map<offset_t>(filter_index_offset(prefix))
filter_offset(f, prefix) == IF prefix \in DOMAIN f.ix THEN f.ix[prefix] ELSE empty_offset

\* get_str_from_map(0, n)
get_str_from_map(f, from, n) ==
  [i \in 1..n |-> IF from + i <= Len(f.hdr) THEN f.hdr[from + i] ELSE 0]

\* copy_str_to_map(value, 0): value.size() bytes, whatever that size is
copy_str_to_map(f, value) ==
  [f EXCEPT !.hdr = [i \in 1..Len(@) |-> IF i <= Len(value) THEN value[i] ELSE @[i]]]

\* std::filesystem::resize_file: new bytes are zero
resize_file(m, new_size) ==
  [m EXCEPT !.f.size = new_size,
            !.f.hdr = [i \in 1..header_length |-> IF i <= Len(@) THEN @[i] ELSE 0]]

\* a map() that creates the file it does not find
map_creating(m) ==
  IF ~m.f.exists THEN Throw([m EXCEPT !.f = [NoFile EXCEPT !.exists = TRUE]], "IoError")
  ELSE IF m.f.size = 0 THEN Throw(m, "IoError")
  ELSE [m EXCEPT !.h.mapped = TRUE,
                 !.h.filters.ent = [p \in DOMAIN @ |-> [@[p] EXCEPT !.dangling = TRUE]]]

\* mmap.map(): maps the new view, then unmaps the old one, so every
\* fingerprint pointer into the old view dangles; on error the old view stays
map_whole_file(m) ==
  IF ~m.f.exists THEN Throw(m, "FileNotFound")
  ELSE IF m.f.size = 0 THEN Throw(m, "IoError")
  ELSE [m EXCEPT !.h.mapped = TRUE,
                 !.h.filters.ent = [p \in DOMAIN @ |-> [@[p] EXCEPT !.dangling = TRUE]]]

\* get_from_map, get_str_from_map and memcpy from the map test no bound: a
\* read of the bytes [.., upto) of a map of m.f.size bytes that ends past
\* the map is undefined (h.ub: from here on the handle may do anything);
\* the model carries on with zero bytes
read_to(m, upto) == IF upto > m.f.size THEN [m EXCEPT !.h.ub = TRUE] ELSE m

\* a check of the family name only, whatever the fingerprint width
check_family_only(m) ==
  IF get_str_from_map(m.f, 0, Len(sbinfuse)) # sbinfuse
  THEN Throw(m, "FileFormatMismatch") ELSE m

check_type_id(m) ==
  IF get_str_from_map(m.f, 0, Len(type_id(m.w))) # type_id(m.w)
  THEN Throw(read_to(m, Len(type_id(m.w))), "FileFormatMismatch")
  ELSE read_to(m, Len(type_id(m.w)))

check_max_shards(m) ==
  IF from_chars(get_str_from_map(m.f, 11, 4), 0) # max_shards(m.h.shard_bits)
  THEN Throw(read_to(m, 11 + 4), "FileFormatMismatch")
  ELSE read_to(m, 11 + 4)

\* returns existing file size (m.f.size)
ensure_file(m) ==
  IF ~m.h.filepath THEN Throw(m, "NoFilename")
  ELSE IF m.f.exists THEN m
  ELSE [m EXCEPT !.f = [NoFile EXCEPT !.exists = TRUE]]

create_filetag(m) == [m EXCEPT !.f = copy_str_to_map(@, filetag(m.w, m.h.shard_bits))]

\* index.resize(max_shards(), empty_offset) keeps the entries the vector
\* already holds; the whole vector is then copied to the map
create_index(m) ==
  LET idx == [len |-> max_shards(m.h.shard_bits),
              ent |-> Restrict(m.h.index.ent, 0..(max_shards(m.h.shard_bits) - 1))]
  IN [m EXCEPT !.h.index = idx, !.f.ix = idx.ent]

\* the position of the first EMPTY entry of the index
first_empty(index) ==
  IF \A p \in 0..(index.len - 1) : p \in DOMAIN index.ent THEN index.len
  ELSE CHOOSE p \in 0..(index.len - 1) :
         p \notin DOMAIN index.ent /\ \A q \in 0..(p - 1) : q \in DOMAIN index.ent

\* count_if(index, a != empty_offset)
count_shards(index) == Cardinality(DOMAIN index.ent)

\* the slots whose 8 bytes end past the end of the file
SlotsPastEnd(f, shard_bits) ==
  IF f.size >= index_start + index_length(shard_bits) THEN {}
  ELSE {p \in 0..(max_shards(shard_bits) - 1) : filter_index_offset(p) + OffsetBytes > f.size}

\* memcpy of index_length() bytes from the map, whatever the size of the map
load_index(m) ==
  LET past == SlotsPastEnd(m.f, m.h.shard_bits)
      read == Restrict(m.f.ix, 0..(max_shards(m.h.shard_bits) - 1))
      idx == [len |-> max_shards(m.h.shard_bits),
              ent |-> [p \in (DOMAIN read) \cup past |-> IF p \in past THEN 0 ELSE read[p]]]
      m1 == read_to(m, index_start + index_length(m.h.shard_bits))
  IN [m1 EXCEPT !.h.index = idx, !.h.shards_ = count_shards(idx)]

\* filter::deserialize(&mmap[offset]): the struct fields are copied, the
\* fingerprint pointer aims into the map
deserialize(f, offset) ==
  LET blob == IF offset \in DOMAIN f.body THEN f.body[offset] ELSE DefaultFilter
  IN [SegmentCount |-> blob.SegmentCount, ArrayLength |-> blob.ArrayLength,
      ptr |-> offset, dangling |-> FALSE]

load_filters(m) ==
  LET live == {p \in DOMAIN m.h.index.ent : p < max_shards(m.h.shard_bits)}
  IN [m EXCEPT !.h.filters = [len |-> max_shards(m.h.shard_bits),
                              ent |-> [p \in live |-> deserialize(m.f, m.h.index.ent[p])]],
               \* an offset at or past the end of the map is read out of bounds
               !.h.ub = @ \/ \E p \in live : m.h.index.ent[p] >= m.f.size]

\* returns new_filesize (m.f.size)
ensure_header(m) ==
  LET m1 == ensure_file(m)
  IN IF m1.err # "ok" THEN m1
     ELSE IF m1.f.size < header_length + index_length(m1.h.shard_bits)
     THEN IF m1.f.size # 0 THEN Throw(m1, "CorruptFile")
          ELSE LET m2 == map_whole_file(
                           resize_file(m1, header_length + index_length(m1.h.shard_bits)))
                   m3 == Then(Then(Then(m2, create_filetag), create_index), load_filters)
               IN IF m3.err = "ok" THEN [m3 EXCEPT !.h.shards_ = 0] ELSE m3
     ELSE Then(Then(Then(Then(map_whole_file(m1),
            check_type_id), check_max_shards), load_index), load_filters)

\* a load() that writes the index of the handle back before it reads it
load_read_reindexing(m) ==
  Then(Then(Then(Then(Then(map_whole_file(m),
    check_type_id), check_max_shards), create_index), load_index), load_filters)

\* load() of a source (AccessMode == read)
load_read(m) ==
  Then(Then(Then(Then(map_whole_file(m),
    check_type_id), check_max_shards), load_index), load_filters)

\* a sink open that starts the file afresh whether or not it exists
load_write_afresh(m) ==
  Then([m EXCEPT !.f = [NoFile EXCEPT !.exists = TRUE]], ensure_header)

\* load() of a sink (AccessMode == write)
load_write(m) ==
  IF ~m.f.exists THEN Then(ensure_file(m), ensure_header) ELSE load_read(m)

\* set_filename(path, shard_bits), and the constructor that takes a path
set_filename(m, shard_bits, write) ==
  LET m1 == [m EXCEPT !.h.filepath = TRUE, !.h.shard_bits = shard_bits]
  IN IF write THEN load_write(m1) ELSE load_read(m1)

\* add without the load_filters() that ends it
add_slot_no_reload(m, flt, prefix, offset) ==
  IF filter_offset(m.f, prefix) # empty_offset THEN Throw(m, "SlotOccupied")
  ELSE [m EXCEPT !.f.ix = (prefix :> offset) @@ @,
                 !.f.body = (offset :> serialize(flt)) @@ @,
                 !.h.index.ent = (prefix :> offset) @@ @,
                 !.h.shards_ = @ + 1]

\* add that writes an index table holding the new entry alone
add_slot_alone(m, flt, prefix, offset) ==
  IF filter_offset(m.f, prefix) # empty_offset THEN Throw(m, "SlotOccupied")
  ELSE load_filters(
         [m EXCEPT !.f.ix = (prefix :> offset),
                   !.f.body = (offset :> serialize(flt)) @@ @,
                   !.h.index.ent = (prefix :> offset),
                   !.h.shards_ = @ + 1])

\* add, from the remap on: the slot is read from the map, then written
add_slot(m, flt, prefix, offset) ==
  IF filter_offset(m.f, prefix) # empty_offset THEN Throw(m, "SlotOccupied")
  ELSE load_filters(
         [m EXCEPT !.f.ix = (prefix :> offset) @@ @,
                   !.f.body = (offset :> serialize(flt)) @@ @,
                   !.h.index.ent = (prefix :> offset) @@ @,
                   !.h.shards_ = @ + 1])

\* the bug of taking the offset after new_size += size_req
new_filter_offset_after(new_size, size_req) == new_size + size_req

\* const offset_t new_filter_offset = new_size; // place new filter at end
new_filter_offset(new_size, size_req) == new_size

\* what a read or a write outside the map may do: end the process, find a
\* value that is not empty_offset, or find empty_offset
Luck == {"crash", "value", "empty"}

\* add, from the remap on, for prefix >= max_shards(): nothing tests the
\* prefix, so get_from_map and copy_to_map work at filter_index_offset(prefix),
\* past the index. Inside the map that position lies in bytes that
\* resize_file appended (zero, which is not empty_offset); outside the map
\* the read is undefined, and when it finds empty_offset the offset is
\* written outside the map and index[prefix] outside the vector
add_slot_out_of_range(m, flt, prefix, offset, luck) ==
  IF filter_index_offset(prefix) + OffsetBytes <= m.f.size \/ luck = "value"
  THEN Throw(m, "SlotOccupied")
  ELSE IF luck = "crash" THEN [Throw(m, "crash") EXCEPT !.h.ub = TRUE]
  ELSE load_filters(
         [m EXCEPT !.f.body = (offset :> serialize(flt)) @@ @,
                   !.h.shards_ = @ + 1,
                   !.h.ub = TRUE])

\* add that looks at the slot before it grows the file
add_at_slot_first(m, flt, prefix, luck) ==
  IF m.h.shards_ = max_shards(m.h.shard_bits) THEN Throw(m, "CapacityExceeded")
  ELSE LET m1 == ensure_header(m)
           size_req == serialization_bytes(flt, m1.w)
           m2 == map_whole_file(resize_file(m1, m1.f.size + size_req))
       IN IF m1.err # "ok" THEN m1
          ELSE IF filter_offset(m1.f, prefix) # empty_offset THEN Throw(m1, "SlotOccupied")
          ELSE IF m2.err # "ok" THEN m2
          ELSE add_slot(m2, flt, prefix, new_filter_offset(m1.f.size, size_req))

\* add(new_filter, prefix) for any prefix of std::uint32_t
add_at(m, flt, prefix, luck) ==
  IF m.h.shards_ = max_shards(m.h.shard_bits) THEN Throw(m, "CapacityExceeded")
  ELSE LET m1 == ensure_header(m)
           size_req == serialization_bytes(flt, m1.w)
           m2 == map_whole_file(resize_file(m1, m1.f.size + size_req))
       IN IF m1.err # "ok" THEN m1
          ELSE IF m2.err # "ok" THEN m2
          ELSE IF prefix < max_shards(m2.h.shard_bits)
          THEN add_slot(m2, flt, prefix, new_filter_offset(m1.f.size, size_req))
          ELSE add_slot_out_of_range(m2, flt, prefix,
                                     new_filter_offset(m1.f.size, size_req), luck)

\* add with the capacity test made once the file has been grown and mapped
add_grow_first(m, flt, prefix) ==
  LET m1 == ensure_header(m)
      size_req == serialization_bytes(flt, m1.w)
      m2 == map_whole_file(resize_file(m1, m1.f.size + size_req))
  IN IF m1.err # "ok" THEN m1
     ELSE IF m2.err # "ok" THEN m2
     ELSE IF m.h.shards_ = max_shards(m.h.shard_bits) THEN Throw(m2, "CapacityExceeded")
     ELSE add_slot(m2, flt, prefix, new_filter_offset(m1.f.size, size_req))

\* add(new_filter, prefix) with prefix < max_shards()
add(m, flt, prefix) == add_at(m, flt, prefix, "value")

\* stream_prepare that leaves stream_keys_ as it is
stream_prepare_keep_keys(m) ==
  [m EXCEPT !.h.stream_last_prefix_ = 0,
            !.h.stream_last_key_ = <<0, 0>>]

stream_prepare(m) ==
  [m EXCEPT !.h.stream_keys_ = <<>>,
            !.h.stream_last_prefix_ = 0,
            !.h.stream_last_key_ = <<0, 0>>]

Range(s) == {s[i] : i \in DOMAIN s}

\* stream_add that stores the key before it tests it
stream_add_store_first(m, key, fp) ==
  IF KeyLess(key, m.h.stream_last_key_)
  THEN Throw([m EXCEPT !.h.stream_last_key_ = key], "KeyOutOfOrder")
  ELSE LET m1 == [m EXCEPT !.h.stream_last_key_ = key]
           prefix == extract_prefix(key, m.h.shard_bits)
           m2 == IF prefix # m1.h.stream_last_prefix_
                 THEN LET a == add(m1, populate(Range(m1.h.stream_keys_),
                                                Len(m1.h.stream_keys_), fp),
                                   m1.h.stream_last_prefix_)
                      IN IF a.err # "ok" THEN a
                         ELSE [a EXCEPT !.h.stream_keys_ = <<>>,
                                        !.h.stream_last_prefix_ = prefix]
                 ELSE m1
       IN IF m2.err # "ok" THEN m2
          ELSE [m2 EXCEPT !.h.stream_keys_ = Append(@, key)]

\* stream_add that keeps stream_last_prefix_ after the flush
stream_add_keep_prefix(m, key, fp) ==
  IF KeyLess(key, m.h.stream_last_key_) THEN Throw(m, "KeyOutOfOrder")
  ELSE LET m1 == [m EXCEPT !.h.stream_last_key_ = key]
           prefix == extract_prefix(key, m.h.shard_bits)
           m2 == IF prefix # m1.h.stream_last_prefix_
                 THEN LET a == add(m1, populate(Range(m1.h.stream_keys_),
                                                Len(m1.h.stream_keys_), fp),
                                   m1.h.stream_last_prefix_)
                      IN IF a.err # "ok" THEN a
                         ELSE [a EXCEPT !.h.stream_keys_ = <<>>]
                 ELSE m1
       IN IF m2.err # "ok" THEN m2
          ELSE [m2 EXCEPT !.h.stream_keys_ = Append(@, key)]

\* stream_add that keeps the flushed keys in stream_keys_
stream_add_keep_buffer(m, key, fp) ==
  IF KeyLess(key, m.h.stream_last_key_) THEN Throw(m, "KeyOutOfOrder")
  ELSE LET m1 == [m EXCEPT !.h.stream_last_key_ = key]
           prefix == extract_prefix(key, m.h.shard_bits)
           m2 == IF prefix # m1.h.stream_last_prefix_
                 THEN LET a == add(m1, populate(Range(m1.h.stream_keys_),
                                                Len(m1.h.stream_keys_), fp),
                                   m1.h.stream_last_prefix_)
                      IN IF a.err # "ok" THEN a
                         ELSE [a EXCEPT !.h.stream_last_prefix_ = prefix]
                 ELSE m1
       IN IF m2.err # "ok" THEN m2
          ELSE [m2 EXCEPT !.h.stream_keys_ = Append(@, key)]

\* fp: the false positives of the filter built from stream_keys_, if one is
stream_add(m, key, fp) ==
  IF KeyLess(key, m.h.stream_last_key_) THEN Throw(m, "KeyOutOfOrder")
  ELSE LET m1 == [m EXCEPT !.h.stream_last_key_ = key]
           prefix == extract_prefix(key, m.h.shard_bits)
           m2 == IF prefix # m1.h.stream_last_prefix_
                 THEN LET a == add(m1, populate(Range(m1.h.stream_keys_),
                                                Len(m1.h.stream_keys_), fp),
                                   m1.h.stream_last_prefix_)
                      IN IF a.err # "ok" THEN a
                         ELSE [a EXCEPT !.h.stream_keys_ = <<>>,
                                        !.h.stream_last_prefix_ = prefix]
                 ELSE m1
       IN IF m2.err # "ok" THEN m2
          ELSE [m2 EXCEPT !.h.stream_keys_ = Append(@, key)]

stream_finalize(m, fp) ==
  IF m.h.stream_keys_ # <<>>
  THEN add(m, populate(Range(m.h.stream_keys_), Len(m.h.stream_keys_), fp),
           m.h.stream_last_prefix_)
  ELSE m

\* shards()
shards(h) == h.shards_

(***************************************************************************)
(* contains.  A read through a dangling fingerprint pointer, or of a       *)
(* filters entry past the end of the vector, is undefined: any answer, or  *)
(* a crash.  The answers are written "true" and "false".                   *)
(***************************************************************************)
Undefined == {"true", "false", "crash"}

SlotFilter(h, prefix) ==
  IF prefix \in DOMAIN h.filters.ent THEN h.filters.ent[prefix]
  ELSE [SegmentCount |-> 0, ArrayLength |-> 0, ptr |-> empty_offset, dangling |-> FALSE]

\* the keys the filter serialized at offset accepts
Members(f, offset) ==
  IF offset \in DOMAIN f.body THEN f.body[offset].keys \cup f.body[offset].fp ELSE {}

\* contains without the is_populated test: filter::contains throws on a
\* filter that is not populated
contains_unchecked(h, f, needle) ==
  LET prefix == extract_prefix(needle, h.shard_bits)
      filter == SlotFilter(h, prefix)
  IN IF h.ub \/ prefix >= h.filters.len THEN Undefined
     ELSE IF ~is_populated(filter) THEN {"FilterNotPopulated"}
     ELSE IF filter.dangling THEN Undefined
     ELSE IF needle \in Members(f, filter.ptr) THEN {"true"} ELSE {"false"}

\* the set of outcomes of contains(needle) on handle h over file f
contains(h, f, needle) ==
  LET prefix == extract_prefix(needle, h.shard_bits)
      filter == SlotFilter(h, prefix)
  IN IF h.ub \/ prefix >= h.filters.len THEN Undefined
     ELSE IF ~is_populated(filter) THEN {"false"}
     ELSE IF filter.dangling THEN Undefined
     ELSE IF needle \in Members(f, filter.ptr) THEN {"true"} ELSE {"false"}

\* the offsets of the map that contains(needle) reads
contains_reads(h, needle) ==
  LET prefix == extract_prefix(needle, h.shard_bits)
      filter == SlotFilter(h, prefix)
  IN IF prefix < h.filters.len /\ is_populated(filter) THEN {filter.ptr} ELSE {}

(***************************************************************************)
(* The system: one path, one sink handle and one source handle on it.      *)
(* ret is the outcome of the last call; hist records what the calls were:  *)
(*   created  the width and shard_bits of the sink that created the file   *)
(*   added    the filter of every add that returned, by slot               *)
(*   order    the slots of those adds, in call order                       *)
(*   adds     the number of calls of add                                   *)
(*   sinkOk, sourceOk   the handle's last set_filename returned            *)
(*   session  "open" after stream_prepare while only stream_add follows;   *)
(*            then "failed" once a streaming call threw from add, "done"   *)
(*            once stream_finalize returned; "none" otherwise              *)
(*   fresh    the session began on a sink just opened on a file without   *)
(*            shards                                                       *)
(*   fed      the keys the stream_add calls of the session returned for    *)
(*   admitted the last key that passed the order check of the session      *)
(*   nstream, finalizes  the number of stream_add, stream_finalize calls   *)
(***************************************************************************)
NoRet == [op |-> "none", err |-> "ok", arg |-> 0]

NoHist ==
  [created |-> [w |-> 0, shard_bits |-> 0], fresh |-> FALSE,
   added |-> EmptyFn, order |-> <<>>, adds |-> 0, sinkOk |-> FALSE, sourceOk |-> FALSE,
   session |-> "none", fed |-> <<>>, admitted |-> <<0, 0>>, nstream |-> 0,
   finalizes |-> 0]

Init ==
  /\ file = NoFile
  /\ sink = DefaultHandle
  /\ source = DefaultHandle
  /\ sinkW \in Widths
  /\ sourceW = sinkW
  /\ ret = NoRet
  /\ hist = NoHist

\* the filters a caller may hand to add for a slot: filter(), or filter(keys)
\* over keys of that slot
UserFilters(prefix, shard_bits) ==
  {DefaultFilter} \cup
  UNION {{populate(K, Cardinality(K), fp) : fp \in FalsePositives(K)} :
           K \in {S \in SUBSET {k \in Keys : extract_prefix(k, shard_bits) = prefix} :
                     Cardinality(S) <= MaxFilterKeys}}

\* the slots the keys of the model route to
Prefixes(shard_bits) == {extract_prefix(k, shard_bits) : k \in Keys}

SinkSetFilename(shard_bits) ==
  \E m \in {set_filename(Call(sink, file, sinkW), shard_bits, TRUE)} :
     /\ sink' = m.h
     /\ file' = m.f
     /\ ret' = [op |-> "sink.set_filename", err |-> m.err, arg |-> shard_bits]
     /\ hist' = [hist EXCEPT !.sinkOk = (m.err = "ok"),
                             !.session = "none",
                             !.fresh = FALSE,
                             !.created = IF ~file.exists /\ m.f.size > 0
                                         THEN [w |-> sinkW, shard_bits |-> shard_bits]
                                         ELSE @]
     /\ UNCHANGED <<source, sinkW, sourceW>>

SourceSetFilename(shard_bits) ==
  \E m \in {set_filename(Call(source, file, sourceW), shard_bits, FALSE)} :
     /\ source' = m.h
     /\ file' = m.f
     /\ ret' = [op |-> "source.set_filename", err |-> m.err, arg |-> shard_bits]
     /\ hist' = [hist EXCEPT !.sourceOk = (m.err = "ok")]
     /\ UNCHANGED <<sink, sinkW, sourceW>>

Add(flt, prefix) ==
  \E m \in {add(Call(sink, file, sinkW), flt, prefix)} :
     /\ hist.adds < MaxAdds
     /\ sink' = m.h
     /\ file' = m.f
     /\ ret' = [op |-> "add", err |-> m.err, arg |-> prefix]
     /\ hist' = [hist EXCEPT !.adds = @ + 1,
                             !.added = IF m.err = "ok" THEN (prefix :> flt) @@ @ ELSE @,
                             !.order = IF m.err = "ok" THEN Append(@, prefix) ELSE @]
     /\ UNCHANGED <<source, sinkW, sourceW>>

\* a prefix past the index whose 8 bytes lie past every file of the model
FarPrefix == Pow2(20)

\* the prefixes >= max_shards() the model calls add with: the first one,
\* whose 8 bytes are the first 8 bytes after the index, and a far one
OutOfRangePrefixes(shard_bits) == {max_shards(shard_bits), FarPrefix}

\* the 8 bytes at filter_index_offset(prefix) are not bytes of a shard
ClearOfShards(f, w, prefix) ==
  \A o \in DOMAIN f.body :
    \/ filter_index_offset(prefix) + OffsetBytes <= o
    \/ o + serialization_bytes(f.body[o], w) <= filter_index_offset(prefix)

\* add(filter, prefix) with prefix >= max_shards(); the model leaves out the
\* calls that would read bytes of a shard as an offset
AddOutOfRange(flt, prefix, luck) ==
  \E m \in {add_at(Call(sink, file, sinkW), flt, prefix, luck)} :
     /\ hist.adds < MaxRangeAdds
     /\ prefix >= max_shards(sink.shard_bits)
     /\ ClearOfShards(file, sinkW, prefix)
     /\ sink' = m.h
     /\ file' = m.f
     /\ ret' = [op |-> "add", err |-> m.err, arg |-> prefix]
     /\ hist' = [hist EXCEPT !.adds = @ + 1]
     /\ UNCHANGED <<source, sinkW, sourceW>>

StreamPrepare ==
  \E m \in {stream_prepare(Call(sink, file, sinkW))} :
     /\ sink' = m.h
     /\ ret' = [op |-> "stream_prepare", err |-> m.err, arg |-> 0]
     /\ hist' = [hist EXCEPT !.session = "open", !.fed = <<>>, !.admitted = <<0, 0>>,
                             !.fresh = hist.sinkOk /\ DOMAIN file.ix = {}]
     /\ UNCHANGED <<file, source, sinkW, sourceW>>

\* the filter that a flush of stream_keys_ adds, when the call makes one
Flushed(m, flt, prefix) ==
  IF m.err = "ok" /\ Len(hist.order) < Cardinality(DOMAIN m.f.ix)
  THEN [hist EXCEPT !.added = (prefix :> flt) @@ @, !.order = Append(@, prefix)]
  ELSE hist

StreamAdd(key, fp) ==
  \E m \in {stream_add(Call(sink, file, sinkW), key, fp)},
     flt \in {populate(Range(sink.stream_keys_), Len(sink.stream_keys_), fp)} :
     /\ hist.nstream < MaxStreamAdds
     /\ sink' = m.h
     /\ file' = m.f
     /\ ret' = [op |-> "stream_add", err |-> m.err, arg |-> key]
     /\ hist' = [Flushed(m, flt, sink.stream_last_prefix_) EXCEPT
                   !.nstream = @ + 1,
                   !.fed = IF m.err = "ok" THEN Append(@, key) ELSE @,
                   !.admitted = IF m.err # "KeyOutOfOrder" THEN key ELSE @,
                   !.session = IF @ # "open" THEN "none"
                               ELSE IF m.err \in {"ok", "KeyOutOfOrder"} THEN @
                               ELSE "failed"]
     /\ UNCHANGED <<source, sinkW, sourceW>>

StreamFinalize(fp) ==
  \E m \in {stream_finalize(Call(sink, file, sinkW), fp)},
     flt \in {populate(Range(sink.stream_keys_), Len(sink.stream_keys_), fp)} :
     /\ hist.finalizes < MaxFinalizes
     /\ sink' = m.h
     /\ file' = m.f
     /\ ret' = [op |-> "stream_finalize", err |-> m.err, arg |-> 0]
     /\ hist' = [Flushed(m, flt, sink.stream_last_prefix_) EXCEPT
                   !.finalizes = @ + 1,
                   !.session = IF @ # "open" THEN "none"
                               ELSE IF m.err = "ok" THEN "done" ELSE "failed"]
     /\ UNCHANGED <<source, sinkW, sourceW>>

Next ==
  \/ \E shard_bits \in ShardBits : SinkSetFilename(shard_bits)
  \/ \E shard_bits \in ShardBits : SourceSetFilename(shard_bits)
  \/ \E prefix \in Prefixes(sink.shard_bits) :
       \E flt \in UserFilters(prefix, sink.shard_bits) : Add(flt, prefix)

Spec == Init /\ [][Next]_vars

\* the streaming build
NextStream ==
  \/ \E shard_bits \in ShardBits : SinkSetFilename(shard_bits)
  \/ StreamPrepare
  \/ \E key \in Keys, fp \in FalsePositives(Range(sink.stream_keys_)) : StreamAdd(key, fp)
  \/ \E fp \in FalsePositives(Range(sink.stream_keys_)) : StreamFinalize(fp)

StreamSpec == Init /\ [][NextStream]_vars

\* add with prefixes on both sides of max_shards()
RangeNext ==
  \/ \E shard_bits \in ShardBits : SinkSetFilename(shard_bits)
  \/ \E prefix \in Prefixes(sink.shard_bits) :
       \E flt \in {u \in UserFilters(prefix, sink.shard_bits) : u.keys # {} /\ u.fp = {}} :
         hist.adds < MaxRangeAdds /\ Add(flt, prefix)
  \/ \E prefix \in OutOfRangePrefixes(sink.shard_bits), luck \in Luck :
       \E flt \in {u \in UserFilters(0, sink.shard_bits) : u.keys # {} /\ u.fp = {}} :
         AddOutOfRange(flt, prefix, luck)

RangeSpec == Init /\ [][RangeNext]_vars

\* the file a sink of width w and shard_bits leaves when it is constructed
\* on a path that has no file: the header and an index of EMPTY entries
FreshFile(w, shard_bits) == set_filename(Call(DefaultHandle, NoFile, w), shard_bits, TRUE).f

\* f cut to its first size bytes by something other than a handle
Truncated(f, size) ==
  [f EXCEPT !.size = size,
            !.hdr = SubSeq(@, 1, IF size < header_length THEN size ELSE header_length),
            !.ix = Restrict(@, {p \in DOMAIN @ : filter_index_offset(p) + OffsetBytes <= size}),
            !.body = EmptyFn]

\* f with slot prefix of its index table set to offset by something other
\* than a handle
WithEntry(f, prefix, offset) == [f EXCEPT !.ix = (prefix :> offset) @@ @]

\* sizes of a file of 2 slots that was cut: inside the header, after the
\* header, inside the index
TruncatedSizes == {8, 16, 24}

\* the files found at the path: a good one of 2 slots, cut ones, and ones
\* whose index refers to the end of the file or past it
FoundFiles(w) ==
  {FreshFile(w, 1)}
    \cup {Truncated(FreshFile(w, 1), size) : size \in TruncatedSizes}
    \cup {WithEntry(FreshFile(w, 1), 0, 32), WithEntry(FreshFile(w, 1), 1, 4096)}

CorruptInit ==
  /\ sinkW \in Widths
  /\ sourceW = sinkW
  /\ file \in FoundFiles(sinkW)
  /\ sink = DefaultHandle
  /\ source = DefaultHandle
  /\ ret = NoRet
  /\ hist = [NoHist EXCEPT !.created = [w |-> sinkW, shard_bits |-> 1]]

\* opening and filling files that were cut or whose index was damaged
CorruptNext ==
  \/ \E shard_bits \in ShardBits : SinkSetFilename(shard_bits)
  \/ \E shard_bits \in ShardBits : SourceSetFilename(shard_bits)
  \/ \E prefix \in Prefixes(sink.shard_bits) :
       \E flt \in {u \in UserFilters(prefix, sink.shard_bits) : u.keys # {} /\ u.fp = {}} :
         hist.adds < MaxCorruptAdds /\ Add(flt, prefix)

CorruptSpec == CorruptInit /\ [][CorruptNext]_vars

\* opening files with every width and every shard_bits: a sink constructed
\* on the path, and a source that may be instantiated for another
\* fingerprint width
HeaderInit ==
  /\ file = NoFile
  /\ sink = DefaultHandle
  /\ source = DefaultHandle
  /\ sinkW \in Widths
  /\ sourceW \in Widths
  /\ ret = NoRet
  /\ hist = NoHist

HeaderNext ==
  \/ \E shard_bits \in AllShardBits : ~sink.filepath /\ SinkSetFilename(shard_bits)
  \/ \E shard_bits \in AllShardBits : SourceSetFilename(shard_bits)
  \/ \E prefix \in Prefixes(sink.shard_bits) :
       \E flt \in {u \in UserFilters(prefix, sink.shard_bits) : u.keys # {} /\ u.fp = {}} :
         hist.adds < MaxHeaderAdds /\ Add(flt, prefix)

HeaderSpec == HeaderInit /\ [][HeaderNext]_vars

(***************************************************************************)
(* Properties                                                              *)
(***************************************************************************)
\* a source handle constructed now on the path: sharded_filter(path, shard_bits)
OpenedSource(w, shard_bits) == set_filename(Call(DefaultHandle, file, w), shard_bits, FALSE)

\* a sink handle constructed now on the path
OpenedSink(w, shard_bits) == set_filename(Call(DefaultHandle, file, w), shard_bits, TRUE)

\* C1: round trip through add. Whatever filters successful add calls placed
\* into distinct slots of the file a sink created, a source opened now with
\* the same width and shard_bits opens without error and answers
\* contains(k) = true for every key k of the key set of the filter added at
\* the slot k routes to.
C1_RoundTripAdd ==
  hist.added # EmptyFn =>
    LET s == OpenedSource(hist.created.w, hist.created.shard_bits)
    IN /\ s.err = "ok"
       /\ \A k \in Keys :
            LET p == extract_prefix(k, hist.created.shard_bits)
            IN (p \in DOMAIN hist.added /\ k \in hist.added[p].keys)
                 => contains(s.h, file, k) = {"true"}

\* two slots filled out of prefix order, each with a key
C1_Witness ==
  /\ hist.order = <<1, 0>>
  /\ \A p \in {0, 1} : hist.added[p].keys # {}
  /\ ret.op = "add"

\* C2: no false negatives through streaming. After stream_prepare on a fresh
\* sink, stream_add calls and stream_finalize, no call has failed in add,
\* every key a stream_add accepted is in the key set of the shard added at
\* its slot and of no other, and a source opened now with the same width and
\* shard_bits answers contains(k) = true for it.
C2_StreamNoFalseNegatives ==
  hist.fresh =>
    /\ hist.session # "failed"
    /\ hist.session = "done" =>
         LET s == OpenedSource(hist.created.w, hist.created.shard_bits)
         IN /\ s.err = "ok"
            /\ \A k \in Range(hist.fed) :
                 /\ contains(s.h, file, k) = {"true"}
                 /\ \A p \in DOMAIN hist.added :
                      k \in hist.added[p].keys <=> p = extract_prefix(k, hist.created.shard_bits)

\* the same, for the files whose shard count fits the 4 digits of the tag
C2_StreamUpTo13Bits == hist.created.shard_bits < 14 => C2_StreamNoFalseNegatives

\* a session of three keys over both slots has been finalized
C2_Witness ==
  /\ hist.fresh /\ hist.session = "done"
  /\ Len(hist.fed) = 3
  /\ Cardinality(DOMAIN hist.added) = 2

\* the index slot that key routes to on handle h is empty: in the file, or
\* in the index the handle loaded
EmptySlot(h, key) ==
  LET prefix == extract_prefix(key, h.shard_bits)
  IN filter_offset(file, prefix) = empty_offset \/ prefix \notin DOMAIN h.index.ent

\* C3: empty slot short circuit. On a source or a sink whose set_filename
\* returned, contains(k) of a key routed to an empty index slot is false,
\* raises nothing and reads no byte of the map.
C3_EmptySlotShortCircuit ==
  \A k \in Keys :
    /\ (hist.sourceOk /\ EmptySlot(source, k))
         => contains(source, file, k) = {"false"} /\ contains_reads(source, k) = {}
    /\ (hist.sinkOk /\ EmptySlot(sink, k))
         => contains(sink, file, k) = {"false"} /\ contains_reads(sink, k) = {}

\* slot 1 holds a shard, slot 0 is empty, and both handles are open on it
C3_Witness ==
  /\ hist.sourceOk /\ hist.sinkOk
  /\ hist.order = <<1>>
  /\ shards(source) = 1
  /\ EmptySlot(source, <<0, 0>>) /\ EmptySlot(sink, <<0, 0>>)
  /\ contains(source, file, <<0, 0>>) = {"false"}

\* what the set of added (prefix, filter) pairs alone says about key
Answer(added, key, shard_bits) ==
  LET p == extract_prefix(key, shard_bits)
  IN IF p \in DOMAIN added /\ key \in added[p].keys \cup added[p].fp
     THEN {"true"} ELSE {"false"}

\* C4: insertion order independence. On an open sink every add to a slot
\* that no earlier add filled succeeds, and what a source opened on the
\* file answers, contains(k) for every key and shards(), depends on the set
\* of added (filter, prefix) pairs only, not on the order of the adds.
C4_InsertionOrderIndependence ==
  /\ (ret.op = "add" /\ hist.sinkOk) => ret.arg \in DOMAIN hist.added
  /\ hist.added # EmptyFn =>
       LET s == OpenedSource(hist.created.w, hist.created.shard_bits)
       IN /\ s.err = "ok"
          /\ shards(s.h) = Cardinality(DOMAIN hist.added)
          /\ \A k \in Keys :
               contains(s.h, file, k) = Answer(hist.added, k, hist.created.shard_bits)

\* C4 holds of every file whose max_shards has at most four digits
C4_OrderIndependenceUpTo13Bits ==
  hist.created.shard_bits < 14 => C4_InsertionOrderIndependence

\* the number <<hi, lo>> stands for is hi * 2^48 + lo with lo < 2^48: a is
\* the smaller number when its hi is smaller, or the hi are equal and its
\* lo is smaller
Below(a, b) == IF a[1] = b[1] THEN a[2] < b[2] ELSE a[1] < b[1]

\* C5: monotonic streaming. A stream_add(key) is turned away with
\* KeyOutOfOrder exactly when key is smaller than the last key the order
\* test let through (0 after stream_prepare); an equal key passes. The last
\* key never decreases, stream_last_key_ holds it, and a key whose
\* stream_add returns is the last one buffered.
C5_MonotonicStreaming ==
  [][(ret'.op = "stream_add" /\ hist'.nstream # hist.nstream) =>
       /\ (ret'.err = "KeyOutOfOrder") <=> Below(ret'.arg, hist.admitted)
       /\ ~Below(hist'.admitted, hist.admitted)
       /\ sink.stream_last_key_ = hist.admitted
       /\ sink'.stream_last_key_ = hist'.admitted
       /\ ret'.err = "ok" =>
            /\ sink'.stream_keys_ # <<>>
            /\ sink'.stream_keys_[Len(sink'.stream_keys_)] = ret'.arg]_vars

\* a key, the same key again, then a smaller key that is turned away
C5_Witness ==
  /\ ret.op = "stream_add" /\ ret.err = "KeyOutOfOrder"
  /\ Len(hist.fed) = 2 /\ hist.fed[1] = hist.fed[2]
  /\ Below(ret.arg, hist.admitted)
  /\ sink.stream_keys_ = hist.fed

\* the number of entries of the index in the file that are not EMPTY
NonEmptyEntries == Cardinality({p \in DOMAIN file.ix : file.ix[p] # empty_offset})

\* C6: shards() is the number of non-EMPTY index entries, in whatever order
\* the slots were filled: on the sink after an add that returned, on a sink
\* or a source whose set_filename just returned, and on a handle constructed
\* now on the file; a default constructed handle has 0.
C6_ShardCount ==
  /\ shards(DefaultHandle) = 0
  /\ (ret.op \in {"add", "sink.set_filename"} /\ ret.err = "ok")
       => shards(sink) = NonEmptyEntries
  /\ (ret.op = "source.set_filename" /\ ret.err = "ok")
       => shards(source) = NonEmptyEntries
  /\ \A shard_bits \in ShardBits :
       /\ OpenedSource(sourceW, shard_bits).err = "ok"
            => shards(OpenedSource(sourceW, shard_bits).h) = NonEmptyEntries
       /\ (file.exists /\ OpenedSink(sinkW, shard_bits).err = "ok")
            => shards(OpenedSink(sinkW, shard_bits).h) = NonEmptyEntries

\* slot 1 was filled and slot 0 was not, and a source has just opened the file
C6_Witness ==
  /\ hist.order = <<1>>
  /\ filter_offset(file, 0) = empty_offset
  /\ ret.op = "source.set_filename" /\ ret.err = "ok"
  /\ shards(source) = 1

\* a file is on disk and it is the one the sink created with hist.created
CreatedFile == file.exists /\ hist.created.w \in Widths

\* C7: format mismatch is rejected. Constructing a source or a sink on the
\* file a sink created with (w, B), with any other pair of a width in
\* {8, 16} and a shard_bits in 1..16, fails with FileFormatMismatch and
\* leaves the file as it is; so does set_filename of the source handle.
C7_MismatchRejected ==
  CreatedFile =>
    /\ \A w \in Widths, shard_bits \in AllShardBits :
         [w |-> w, shard_bits |-> shard_bits] # hist.created =>
           /\ OpenedSource(w, shard_bits).err = "FileFormatMismatch"
           /\ OpenedSource(w, shard_bits).f = file
           /\ OpenedSink(w, shard_bits).err = "FileFormatMismatch"
           /\ OpenedSink(w, shard_bits).f = file
    /\ (/\ ret.op = "source.set_filename"
        /\ [w |-> sourceW, shard_bits |-> ret.arg] # hist.created)
         => ret.err = "FileFormatMismatch"

\* a source of the other width has just been turned away from a file that
\* holds a shard, though it asked for the shard_bits of the file
C7_Witness ==
  /\ CreatedFile
  /\ hist.added # EmptyFn
  /\ ret.op = "source.set_filename" /\ ret.err = "FileFormatMismatch"
  /\ ret.arg = hist.created.shard_bits
  /\ sourceW # hist.created.w

\* C8: format fidelity, positive half. The file a sink created with (w, B)
\* opens without error, as a source and as a sink, with the same (w, B), and
\* the four characters at offsets 11..14 of its header parse to 2^B.
C8_SameFormatOpens ==
  CreatedFile =>
    /\ OpenedSource(hist.created.w, hist.created.shard_bits).err = "ok"
    /\ OpenedSink(hist.created.w, hist.created.shard_bits).err = "ok"
    /\ from_chars(get_str_from_map(file, 11, 4), 0) = max_shards(hist.created.shard_bits)

\* C8 holds of every file whose max_shards has at most four digits
C8_SameFormatOpensUpTo13Bits ==
  hist.created.shard_bits < 14 => C8_SameFormatOpens

\* the n lowest decimal digits of v, most significant first
RECURSIVE ZeroPadded(_, _)
ZeroPadded(v, n) ==
  IF n = 0 THEN <<>> ELSE Append(ZeroPadded(v \div 10, n - 1), 48 + (v % 10))

\* C9: header layout. Bytes [0, 16) of the file a sink created with (w, B)
\* are 'sbinfuse', w as 2 decimal digits, '-', 2^B as 4 zero padded decimal
\* digits and one NUL byte: 15 printable bytes, then a NUL.
C9_HeaderLayout ==
  CreatedFile =>
    LET header == get_str_from_map(file, 0, header_length)
    IN /\ header = <<115, 98, 105, 110, 102, 117, 115, 101>>
                     \o ZeroPadded(hist.created.w, 2) \o <<45>>
                     \o ZeroPadded(max_shards(hist.created.shard_bits), 4) \o <<0>>
       /\ \A i \in 1..15 : header[i] >= 32 /\ header[i] <= 126
       /\ header[16] = 0

\* C9 holds of every file whose max_shards has at most four digits
C9_HeaderLayoutUpTo13Bits ==
  hist.created.shard_bits < 14 => C9_HeaderLayout

\* the keys handle h answers contains(k) = true for, over file f
Contained(h, f) == {k \in Keys : contains(h, f, k) = {"true"}}

\* C10: add on an occupied slot. An add(filter, p) on an open sink, for a
\* slot p whose index entry in the file is not EMPTY, fails with
\* SlotOccupied and changes no index entry, no shard body and not shards();
\* every key the sink contained before the call it still contains, and so
\* does a source opened afterwards.
C10_OccupiedSlotAddChangesNothing ==
  [][(/\ ret'.op = "add" /\ hist'.adds # hist.adds
      /\ hist.sinkOk
      /\ filter_offset(file, ret'.arg) # empty_offset)
       => /\ ret'.err = "SlotOccupied"
          /\ file'.ix = file.ix /\ file'.body = file.body
          /\ shards(sink') = shards(sink)
          /\ Contained(sink, file) \subseteq Contained(sink', file')
          /\ LET w == hist.created.w
                 shard_bits == hist.created.shard_bits
             IN Contained(set_filename(Call(DefaultHandle, file, w), shard_bits, FALSE).h, file)
                  \subseteq
                Contained(set_filename(Call(DefaultHandle, file', w), shard_bits, FALSE).h, file')
     ]_vars

\* C10 without the keys the sink itself contains: the error, the file, the
\* count and a source opened afterwards are unchanged
C10_OccupiedSlotAddKeepsFile ==
  [][(/\ ret'.op = "add" /\ hist'.adds # hist.adds
      /\ hist.sinkOk
      /\ filter_offset(file, ret'.arg) # empty_offset)
       => /\ ret'.err = "SlotOccupied"
          /\ file'.ix = file.ix /\ file'.body = file.body
          /\ shards(sink') = shards(sink)
          /\ LET w == hist.created.w
                 shard_bits == hist.created.shard_bits
             IN Contained(set_filename(Call(DefaultHandle, file, w), shard_bits, FALSE).h, file)
                  \subseteq
                Contained(set_filename(Call(DefaultHandle, file', w), shard_bits, FALSE).h, file')
     ]_vars

\* C11: add on a full sink. An add on a sink whose shards() equals
\* max_shards fails with CapacityExceeded before anything else happens: the
\* file (size, header, index, bodies) and the handle (its map, its filters)
\* are as they were, and contains answers as before for every key.
C11_FullSinkAddChangesNothing ==
  [][(/\ ret'.op = "add" /\ hist'.adds # hist.adds
      /\ shards(sink) = max_shards(sink.shard_bits))
       => /\ ret'.err = "CapacityExceeded"
          /\ file' = file
          /\ sink' = sink
          /\ \A k \in Keys : contains(sink', file', k) = contains(sink, file, k)
     ]_vars

\* both slots of a file of 2 slots hold a shard, a third add has just been
\* turned away, and the sink still finds a key
C11_Witness ==
  /\ ret.op = "add" /\ ret.err = "CapacityExceeded"
  /\ hist.sinkOk /\ max_shards(sink.shard_bits) = 2 /\ shards(sink) = 2
  /\ NonEmptyEntries = 2
  /\ \E k \in Keys : contains(sink, file, k) = {"true"}

\* C12: add validates its prefix. An add on an open sink with a prefix
\* >= max_shards is turned away with an error (the call returns, and not
\* normally) and writes nothing: the index table and the shard bodies of the
\* file and the index of the handle are as before, and nothing was read or
\* written outside the index and the vector.
C12_PrefixValidated ==
  [][(/\ ret'.op = "add" /\ hist'.adds # hist.adds
      /\ hist.sinkOk /\ ~sink.ub
      /\ ret'.arg >= max_shards(sink.shard_bits))
       => /\ ret'.err \notin {"ok", "crash"}
          /\ file'.ix = file.ix /\ file'.body = file.body
          /\ sink'.index = sink.index
          /\ ~sink'.ub
     ]_vars

\* the prefixes of the keys the streaming session accepted
FedPrefixes == {extract_prefix(k, sink.shard_bits) : k \in Range(hist.fed)}

\* C13: slots of a streaming build. After stream_prepare, stream_add of
\* non-decreasing keys and stream_finalize on a fresh sink, the non-EMPTY
\* index slots are exactly the prefixes of the accepted keys, and shards()
\* is the number of those prefixes.
C13_StreamSlots ==
  (hist.fresh /\ hist.session = "done") =>
    /\ {p \in DOMAIN file.ix : file.ix[p] # empty_offset} = FedPrefixes
    /\ shards(sink) = Cardinality(FedPrefixes)

\* C13 but for slot 0, which also holds a shard, of no key, when the first
\* key has another prefix
C13_StreamSlotsButSlotZero ==
  (hist.fresh /\ hist.session = "done") =>
    /\ {p \in DOMAIN file.ix : file.ix[p] # empty_offset} \ {0} = FedPrefixes \ {0}
    /\ (0 \in DOMAIN file.ix) <=> (hist.fed # <<>>)
    /\ shards(sink) = NonEmptyEntries

EmptyKeySlots ==
  {p \in DOMAIN hist.added : is_populated(hist.added[p]) /\ hist.added[p].keys = {}}

\* C16: a shard of no key holds no key. When a filter constructed from zero
\* keys was added at slot p, contains(k) on a source opened afterwards is
\* false, and raises nothing, for every key k routed to slot p.
C16_EmptyShardHoldsNoKey ==
  LET s == OpenedSource(hist.created.w, hist.created.shard_bits)
  IN \A k \in Keys :
       extract_prefix(k, hist.created.shard_bits) \in EmptyKeySlots
         => s.err = "ok" /\ contains(s.h, file, k) = {"false"}

\* C16 but for the false positives of the filter: the source opens, raises
\* nothing and answers true for those keys only
C16_EmptyShardButFalsePositives ==
  LET s == OpenedSource(hist.created.w, hist.created.shard_bits)
  IN \A k \in Keys :
       LET p == extract_prefix(k, hist.created.shard_bits)
       IN p \in EmptyKeySlots
            => /\ s.err = "ok"
               /\ contains(s.h, file, k) = IF k \in hist.added[p].fp THEN {"true"} ELSE {"false"}

\* C17: a source does not create its file. While no file is at the path,
\* opening a source, with a new handle or with set_filename of the source at
\* hand, with any width and shard_bits, fails with FileNotFound and leaves
\* the path without a file; a file that is there was created by a sink.
C17_SourceOpenOfMissingFile ==
  /\ ~file.exists =>
       /\ \A w \in Widths, shard_bits \in AllShardBits :
            /\ OpenedSource(w, shard_bits).err = "FileNotFound"
            /\ ~OpenedSource(w, shard_bits).f.exists
            /\ set_filename(Call(source, file, w), shard_bits, FALSE).err = "FileNotFound"
            /\ ~set_filename(Call(source, file, w), shard_bits, FALSE).f.exists
       /\ ret.op = "source.set_filename" => ret.err = "FileNotFound"
  /\ file.exists => hist.created.w \in Widths

\* a source has just been turned away from the path, which has no file
C17_Witness ==
  /\ ret.op = "source.set_filename" /\ ret.err = "FileNotFound"
  /\ ~file.exists /\ ~hist.sourceOk

\* the file is there, not empty, and shorter than the header and the index
\* of the shard_bits it was created with
CutFile ==
  /\ file.exists /\ file.size > 0
  /\ file.size < header_length + index_length(hist.created.shard_bits)

\* C18: a sink turns away a file that was cut. Opening a sink, with the
\* width and shard_bits the file was created with, on a file that is not
\* empty but shorter than header and index fails with CorruptFile, reads
\* nothing past the end of the file and leaves the file as it is.
C18_CutFileIsCorrupt ==
  [][(/\ CutFile
      /\ ret'.op = "sink.set_filename"
      /\ ret'.arg = hist.created.shard_bits /\ sinkW = hist.created.w)
       => /\ ret'.err = "CorruptFile"
          /\ ~sink'.ub
          /\ file' = file
     ]_vars

\* C18 without the error and the reads: no open changes a cut file
C18_CutFileIsKept ==
  CutFile =>
    \A shard_bits \in ShardBits :
      /\ OpenedSink(sinkW, shard_bits).f = file
      /\ OpenedSource(sourceW, shard_bits).f = file

\* the file has its whole header and index, and a non-EMPTY index entry that
\* refers to the end of the file or past it
EntryPastEnd ==
  /\ file.exists
  /\ file.size >= header_length + index_length(hist.created.shard_bits)
  /\ \E p \in DOMAIN file.ix : file.ix[p] # empty_offset /\ file.ix[p] >= file.size

\* handle h holds a filter deserialized from outside the map
DeserializedOutside(h) ==
  h.ub \/ \E p \in DOMAIN h.filters.ent : h.filters.ent[p].ptr >= file.size

\* C19: an index entry past the end of the file. Opening a source or a sink,
\* with the width and shard_bits of the file, on a file whose header is good
\* and whose index has a non-EMPTY entry at or past the end of the file
\* fails with CorruptFile, and no filter is deserialized from outside the
\* map.
C19_EntryPastEndIsCorrupt ==
  [][(/\ EntryPastEnd
      /\ ret'.arg = hist.created.shard_bits)
       => /\ (ret'.op = "source.set_filename" /\ sourceW = hist.created.w)
               => ret'.err = "CorruptFile" /\ ~DeserializedOutside(source')
          /\ (ret'.op = "sink.set_filename" /\ sinkW = hist.created.w)
               => ret'.err = "CorruptFile" /\ ~DeserializedOutside(sink')
     ]_vars

\* C19 without the error and the reads: no open changes such a file
C19_EntryPastEndFileIsKept ==
  EntryPastEnd =>
    \A shard_bits \in ShardBits :
      /\ OpenedSink(sinkW, shard_bits).f = file
      /\ OpenedSource(sourceW, shard_bits).f = file

SourceFailedOnCreated ==
  /\ source.filepath /\ ~hist.sourceOk
  /\ CreatedFile /\ sourceW = hist.created.w

\* C21: a failed open does not poison the handle. When the last
\* set_filename of the source failed (no file at the path, or a header that
\* does not match the shard_bits asked for), a set_filename of the same
\* handle on the file a sink created, with the shard_bits of that file,
\* returns without error and contains(k) is true for every key of every
\* shard added to the file.
C21_FailedOpenDoesNotPoison ==
  [][(/\ ret'.op = "source.set_filename"
      /\ SourceFailedOnCreated
      /\ ret'.arg = hist.created.shard_bits)
       => /\ ret'.err = "ok"
          /\ \A k \in Keys :
               (\E p \in DOMAIN hist.added : k \in hist.added[p].keys)
                 => contains(source', file', k) = {"true"}
     ]_vars

\* C21 holds of every file whose max_shards has at most four digits
C21_FailedOpenUpTo13Bits ==
  [][(/\ ret'.op = "source.set_filename"
      /\ SourceFailedOnCreated
      /\ ret'.arg = hist.created.shard_bits
      /\ hist.created.shard_bits < 14)
       => /\ ret'.err = "ok"
          /\ \A k \in Keys :
               (\E p \in DOMAIN hist.added : k \in hist.added[p].keys)
                 => contains(source', file', k) = {"true"}
     ]_vars

(***************************************************************************)
(* binfuse::filter as an object, and persistent_filter: one filter saved   *)
(* behind a 16 byte tag (save) and read from the map of the file (load).   *)
(* In the specification of this part sink is a persistent_filter of        *)
(* AccessMode write, source one of AccessMode read, and file the file at   *)
(* the one path they are given.                                            *)
(*                                                                         *)
(* A filter object is the fields of fil_: keys and fp stand for the seed   *)
(* and the layout the fingerprints were built with; ptr is where           *)
(* Fingerprints points: an offset of the map, or empty_offset when the     *)
(* array is on the heap (or nullptr, in a filter that is not populated).   *)
(***************************************************************************)
\* filter(): fil_{} and skip_free_fingerprints = false
DefaultObject ==
  [SegmentCount |-> 0, ArrayLength |-> 0, keys |-> {}, fp |-> {},
   ptr |-> empty_offset, dangling |-> FALSE, skip_free_fingerprints |-> FALSE]

\* a default constructed persistent_filter
DefaultPersistent ==
  [fil |-> DefaultObject, filepath |-> FALSE, mapped |-> FALSE, ub |-> FALSE]

\* the bytes serialize writes for the object
Blob(fil) ==
  [SegmentCount |-> fil.SegmentCount, ArrayLength |-> fil.ArrayLength,
   keys |-> fil.keys, fp |-> fil.fp]

\* a populate that allocates and builds again over the filter at hand
filter_populate_again(m, keys, n, fp) ==
  LET built == populate(keys, n, fp)
  IN [m EXCEPT !.h.fil = [@ EXCEPT !.SegmentCount = built.SegmentCount,
                                   !.ArrayLength = built.ArrayLength,
                                   !.keys = keys, !.fp = fp,
                                   !.ptr = empty_offset, !.dangling = FALSE]]

\* filter::populate(keys) on the filter of handle m.h
filter_populate(m, keys, n, fp) ==
  IF is_populated(m.h.fil) THEN Throw(m, "AlreadyPopulated")
  ELSE LET built == populate(keys, n, fp)
       IN [m EXCEPT !.h.fil = [@ EXCEPT !.SegmentCount = built.SegmentCount,
                                        !.ArrayLength = built.ArrayLength,
                                        !.keys = keys, !.fp = fp,
                                        !.ptr = empty_offset, !.dangling = FALSE]]

\* filter::contains(needle) on the filter of handle h: the set of outcomes.
\* Fingerprints in the map are read through the pointer: a map that is gone,
\* or bytes that are no longer the ones the fields were read with, give
\* anything
filter_contains(h, f, needle) ==
  IF ~is_populated(h.fil) THEN {"FilterNotPopulated"}
  ELSE IF h.fil.ptr = empty_offset
  THEN IF needle \in h.fil.keys \cup h.fil.fp THEN {"true"} ELSE {"false"}
  ELSE IF h.ub \/ h.fil.dangling \/ h.fil.ptr \notin DOMAIN f.body THEN Undefined
  ELSE IF Blob(h.fil) # f.body[h.fil.ptr] THEN Undefined
  ELSE IF needle \in Members(f, h.fil.ptr) THEN {"true"} ELSE {"false"}

\* filter::deserialize(&mmap[offset]) into the filter of handle m.h
filter_deserialize(m, offset) ==
  LET blob == IF offset \in DOMAIN m.f.body THEN m.f.body[offset] ELSE DefaultFilter
      m1 == read_to(m, offset + serialization_bytes(blob, m.w))
  IN [m1 EXCEPT !.h.fil = [SegmentCount |-> blob.SegmentCount,
                           ArrayLength |-> blob.ArrayLength,
                           keys |-> blob.keys, fp |-> blob.fp,
                           ptr |-> offset, dangling |-> FALSE,
                           skip_free_fingerprints |-> TRUE]]

binfuse == <<98, 105, 110, 102, 117, 115, 101>>

\* persistent_filter::type_id
persistent_type_id(w) == binfuse \o PadLeft(Decimal(w), 2)

\* persistent_filter::map_whole_file: the old view is unmapped
persistent_map_whole_file(m) ==
  IF ~m.f.exists THEN Throw(m, "FileNotFound")
  ELSE IF m.f.size = 0 THEN Throw(m, "IoError")
  ELSE [m EXCEPT !.h.mapped = TRUE,
                 !.h.fil.dangling = @ \/ m.h.fil.ptr # empty_offset]

\* a check of the family name only, whatever the fingerprint width
persistent_check_family_only(m) ==
  IF get_str_from_map(m.f, 0, Len(binfuse)) # binfuse
  THEN Throw(m, "FileFormatMismatch") ELSE m

\* persistent_filter::check_type_id
persistent_check_type_id(m) ==
  IF get_str_from_map(m.f, 0, Len(persistent_type_id(m.w))) # persistent_type_id(m.w)
  THEN Throw(read_to(m, Len(persistent_type_id(m.w))), "FileFormatMismatch")
  ELSE read_to(m, Len(persistent_type_id(m.w)))

\* a create_filetag that writes the type_id of the sharded store
persistent_create_sharded_tag(m) == [m EXCEPT !.f = copy_str_to_map(@, type_id(m.w))]

\* persistent_filter::create_filetag
persistent_create_filetag(m) == [m EXCEPT !.f = copy_str_to_map(@, persistent_type_id(m.w))]

\* this->serialize(&mmap[header_length]) into a file of header_length +
\* serialization_bytes() bytes: the filter fills the file from the header
\* on, over whatever the file held
persistent_serialize(m) ==
  [m EXCEPT !.f.body = (header_length :> serialize(Blob(m.h.fil))),
            !.f.ix = EmptyFn]

\* persistent_filter::save(filepath)
save(m) ==
  LET m1 == [m EXCEPT !.h.filepath = TRUE]
  IN IF ~is_populated(m1.h.fil) THEN Throw(m1, "NotPopulated")
     ELSE LET m2 == ensure_file(m1)
              filesize == header_length + serialization_bytes(m1.h.fil, m1.w)
          IN IF m2.err # "ok" THEN m2
             ELSE Then(Then(persistent_map_whole_file(resize_file(m2, filesize)),
                    persistent_create_filetag), persistent_serialize)

\* deserialize(&mmap[header_length])
persistent_deserialize(m) == filter_deserialize(m, header_length)

\* persistent_filter::load(filepath)
load(m) ==
  Then(Then(persistent_map_whole_file([m EXCEPT !.h.filepath = TRUE]),
    persistent_check_type_id), persistent_deserialize)

\* the key sets a filter is populated from
MaxPopulateKeys == 2
PopulateKeys ==
  {K \in SUBSET {<<0, 0>>, <<32768, 0>>} : Cardinality(K) <= MaxPopulateKeys}

\* what the calls on the two filters were: saved is the width and the key
\* set of the last save that returned
FilterHist == [saved |-> [w |-> 0, keys |-> {}]]

\* the files found at the path: none, or an empty sharded store
FilterInit ==
  /\ sinkW \in Widths
  /\ sourceW \in Widths
  /\ file \in {NoFile} \cup {FreshFile(w, 1) : w \in Widths}
  /\ sink = DefaultPersistent
  /\ source = DefaultPersistent
  /\ ret = NoRet
  /\ hist = FilterHist

SinkPopulate(keys, fp) ==
  \E m \in {filter_populate(Call(sink, file, sinkW), keys, Cardinality(keys), fp)} :
     /\ sink' = m.h
     /\ ret' = [op |-> "sink.populate", err |-> m.err, arg |-> keys]
     /\ UNCHANGED <<file, source, sinkW, sourceW, hist>>

SourcePopulate(keys, fp) ==
  \E m \in {filter_populate(Call(source, file, sourceW), keys, Cardinality(keys), fp)} :
     /\ source' = m.h
     /\ ret' = [op |-> "source.populate", err |-> m.err, arg |-> keys]
     /\ UNCHANGED <<file, sink, sinkW, sourceW, hist>>

Save ==
  \E m \in {save(Call(sink, file, sinkW))} :
     /\ sink' = m.h
     /\ file' = m.f
     /\ ret' = [op |-> "save", err |-> m.err, arg |-> 0]
     /\ hist' = IF m.err = "ok"
                THEN [hist EXCEPT !.saved = [w |-> sinkW, keys |-> sink.fil.keys]]
                ELSE hist
     /\ UNCHANGED <<source, sinkW, sourceW>>

Load ==
  \E m \in {load(Call(source, file, sourceW))} :
     /\ source' = m.h
     /\ file' = m.f
     /\ ret' = [op |-> "load", err |-> m.err, arg |-> 0]
     /\ UNCHANGED <<sink, sinkW, sourceW, hist>>

FilterNext ==
  \/ \E keys \in PopulateKeys : \E fp \in FalsePositives(keys) : SinkPopulate(keys, fp)
  \/ \E keys \in PopulateKeys : \E fp \in FalsePositives(keys) : SourcePopulate(keys, fp)
  \/ Save
  \/ Load

FilterSpec == FilterInit /\ [][FilterNext]_vars

\* C22: a filter is immutable once populated. populate on a filter that is
\* populated, from keys or from a file, fails with an error and leaves the
\* filter as it is: contains answers for every key as it did before the
\* call.
C22_PopulatedIsImmutable ==
  [][/\ (ret'.op = "sink.populate" /\ is_populated(sink.fil))
          => /\ ret'.err = "AlreadyPopulated"
             /\ sink' = sink
             /\ \A k \in Keys :
                  filter_contains(sink', file', k) = filter_contains(sink, file, k)
     /\ (ret'.op = "source.populate" /\ is_populated(source.fil))
          => /\ ret'.err = "AlreadyPopulated"
             /\ source' = source
             /\ \A k \in Keys :
                  filter_contains(source', file', k) = filter_contains(source, file, k)
    ]_vars

\* a populate with other keys has just been turned away by a filter that
\* was built from a key, which it still finds
C22_Witness ==
  /\ ret.op = "sink.populate" /\ ret.err = "AlreadyPopulated"
  /\ is_populated(sink.fil)
  /\ ret.arg # sink.fil.keys /\ ret.arg # {}
  /\ \E k \in sink.fil.keys : filter_contains(sink, file, k) = {"true"}

\* C23: save and load round trip. A save on a populated sink returns; once
\* a sink of width w built from key set K has saved to the path, a source of
\* width w that loads the path, a new one or the one at hand, returns
\* without error, is populated and answers contains(k) = true for every k
\* of K.
C23_SaveLoadRoundTrip ==
  /\ (ret.op = "save" /\ is_populated(sink.fil)) => ret.err = "ok"
  /\ hist.saved.w \in Widths =>
       /\ \A h \in {DefaultPersistent} \cup {x \in {source} : sourceW = hist.saved.w} :
            LET s == load(Call(h, file, hist.saved.w))
            IN /\ s.err = "ok"
               /\ is_populated(s.h.fil)
               /\ \A k \in hist.saved.keys : filter_contains(s.h, s.f, k) = {"true"}
       /\ (ret.op = "load" /\ sourceW = hist.saved.w)
            => /\ ret.err = "ok"
               /\ is_populated(source.fil)
               /\ \A k \in hist.saved.keys : filter_contains(source, file, k) = {"true"}

\* a source has just loaded the file a sink saved from two keys, and finds
\* both
C23_Witness ==
  /\ ret.op = "load" /\ ret.err = "ok"
  /\ Cardinality(hist.saved.keys) = 2
  /\ is_populated(source.fil)
  /\ \A k \in hist.saved.keys : filter_contains(source, file, k) = {"true"}

\* the file starts with 'binfuse' and the 2 decimal digits of w
StartsWithFilterTag(f, w) ==
  /\ f.exists /\ f.size >= 9
  /\ SubSeq(f.hdr, 1, 9) = <<98, 105, 110, 102, 117, 115, 101>> \o ZeroPadded(w, 2)

\* C24: files of the wrong type are refused. A load of a source of width w
\* on a file that does not start with 'binfuse' and the 2 digits of w
\* raises an error and deserializes nothing: the fields and the fingerprint
\* pointer of the filter are as before. That is so for a file saved by a
\* sink of the other width and for a file of the sharded store; both fail
\* the check of the type_id.
C24_WrongTypeRefused ==
  [][(ret'.op = "load" /\ ~StartsWithFilterTag(file, sourceW))
       => /\ ret'.err # "ok"
          /\ (file.exists /\ file.size > 0) => ret'.err = "FileFormatMismatch"
          /\ Blob(source'.fil) = Blob(source.fil)
          /\ source'.fil.ptr = source.fil.ptr
          /\ ~source'.ub
    ]_vars

\* a source has just been turned away from the file a sink of the other
\* width saved
C24_Witness ==
  /\ ret.op = "load" /\ ret.err = "FileFormatMismatch"
  /\ hist.saved.w \in Widths /\ hist.saved.w # sourceW
  /\ hist.saved.keys # {}
  /\ StartsWithFilterTag(file, hist.saved.w)
  /\ ~is_populated(source.fil)

(***************************************************************************)
(* add, stopped on its way.  The writes of add reach the file through the  *)
(* shared map in the order the code makes them; a writer that is stopped   *)
(* (the process ends) leaves the file with the writes made so far.         *)
(***************************************************************************)
\* add runs or is stopped at most MaxCrashAdds times
MaxCrashAdds == 3

\* where add is stopped: after resize_file, after map_whole_file, after
\* copy_to_map(new_filter_offset, ...), after new_filter.serialize(...)
AddStops == {"resized", "mapped", "indexed", "serialized"}

\* add(new_filter, prefix) run up to the point stop, where the writer ends;
\* an exception thrown before that point ends the call as it does in add
add_stopped(m, flt, prefix, stop) ==
  IF m.h.shards_ = max_shards(m.h.shard_bits) THEN Throw(m, "CapacityExceeded")
  ELSE LET m1 == ensure_header(m)
           size_req == serialization_bytes(flt, m1.w)
           offset == new_filter_offset(m1.f.size, size_req)
           m2 == resize_file(m1, m1.f.size + size_req)
           m3 == map_whole_file(m2)
           m4 == [m3 EXCEPT !.f.ix = (prefix :> offset) @@ @]
           m5 == [m4 EXCEPT !.f.body = (offset :> serialize(flt)) @@ @]
       IN IF m1.err # "ok" THEN m1
          ELSE IF stop = "resized" THEN Throw(m2, "crash")
          ELSE IF m3.err # "ok" THEN m3
          ELSE IF stop = "mapped" THEN Throw(m3, "crash")
          ELSE IF filter_offset(m3.f, prefix) # empty_offset THEN Throw(m3, "SlotOccupied")
          ELSE IF stop = "indexed" THEN Throw(m4, "crash")
          ELSE Throw(m5, "crash")

\* hist, with torn: the slots an add was stopped on after it had written
\* the index entry and before it had serialized the filter
CrashHist == ("torn" :> {}) @@ NoHist

CrashInit ==
  /\ file = NoFile
  /\ sink = DefaultHandle
  /\ source = DefaultHandle
  /\ sinkW \in Widths
  /\ sourceW = sinkW
  /\ ret = NoRet
  /\ hist = CrashHist

\* the writer ends inside add; the handle is gone with it, and the next
\* writer starts with a handle of its own
AddStopped(flt, prefix, stop) ==
  \E m \in {add_stopped(Call(sink, file, sinkW), flt, prefix, stop)} :
     /\ hist.adds < MaxCrashAdds
     /\ file' = m.f
     /\ sink' = IF m.err = "crash" THEN DefaultHandle ELSE m.h
     /\ ret' = [op |-> "add", err |-> m.err, arg |-> prefix]
     /\ hist' = [hist EXCEPT !.adds = @ + 1,
                             !.sinkOk = @ /\ m.err # "crash",
                             !.torn = IF m.err = "crash" /\ stop = "indexed"
                                      THEN @ \cup {prefix} ELSE @]
     /\ UNCHANGED <<source, sinkW, sourceW>>

CrashNext ==
  \/ \E shard_bits \in ShardBits : SinkSetFilename(shard_bits)
  \/ \E prefix \in Prefixes(sink.shard_bits) :
       \E flt \in {u \in UserFilters(prefix, sink.shard_bits) : u.keys # {} /\ u.fp = {}} :
         hist.adds < MaxCrashAdds /\ Add(flt, prefix)
  \/ \E prefix \in Prefixes(sink.shard_bits), stop \in AddStops :
       \E flt \in {u \in UserFilters(prefix, sink.shard_bits) : u.keys # {} /\ u.fp = {}} :
         AddStopped(flt, prefix, stop)

CrashSpec == CrashInit /\ [][CrashNext]_vars

\* C25: crash ordering inside add. Wherever the writer is stopped, every
\* non-EMPTY index entry of the file is the offset of a shard body that has
\* been written in full; an add stopped before its index write leaves the
\* slot EMPTY.
C25_IndexEntryAfterBody ==
  \A p \in DOMAIN file.ix :
    file.ix[p] # empty_offset => file.ix[p] \in DOMAIN file.body

\* C25 but for the slots of the adds that were stopped between the write of
\* the index entry and the write of the body
C25_IndexEntryButTorn ==
  \A p \in DOMAIN file.ix :
    file.ix[p] # empty_offset => (file.ix[p] \in DOMAIN file.body \/ p \in hist.torn)

\* an add stopped before its index write leaves the index as it was
C25_StoppedBeforeIndexWrite ==
  [][(ret'.op = "add" /\ ret'.err = "crash" /\ hist'.torn = hist.torn /\ file'.body = file.body)
       => file'.ix = file.ix]_vars

\* the slots of handle h whose filter is populated and has its fingerprint
\* pointer in a map that has been unmapped
Outlived(h) ==
  {p \in DOMAIN h.filters.ent : is_populated(h.filters.ent[p]) /\ h.filters.ent[p].dangling}

\* the keys that contains on handle h looks up in a populated filter
Looked(h) ==
  {k \in Keys : /\ extract_prefix(k, h.shard_bits) < h.filters.len
                /\ is_populated(SlotFilter(h, extract_prefix(k, h.shard_bits)))}

\* C26: no filter outlives its map. Whenever an operation on the sink or
\* the source has returned, normally or with an error, every populated
\* filter the handle holds has its fingerprint pointer inside the current
\* map of the handle, and contains reads no unmapped region: for every key
\* it looks up in a filter it answers true or false.
C26_NoFilterOutlivesMap ==
  \A h \in {sink, source} :
    /\ Outlived(h) = {}
    /\ \A k \in Looked(h) : contains(h, file, k) \subseteq {"true", "false"}

\* C26 for the calls that return normally: the handle the call was made on
\* holds no filter of an unmapped map
C26_ReturnedNormally ==
  /\ (ret.op \in {"add", "sink.set_filename"} /\ ret.err = "ok")
       => /\ Outlived(sink) = {}
          /\ \A k \in Looked(sink) : contains(sink, file, k) \subseteq {"true", "false"}
  /\ (ret.op = "source.set_filename" /\ ret.err = "ok")
       => /\ Outlived(source) = {}
          /\ \A k \in Looked(source) : contains(source, file, k) \subseteq {"true", "false"}

(***************************************************************************)
(* A sink handle that is given one path after another.  file is the file   *)
(* at the path the sink was given last; the files at the earlier paths     *)
(* stay as they are and are not looked at again.                           *)
(***************************************************************************)
\* set_filename is called with a path that has no file at most MaxPaths
\* times after the first
MaxPaths == 2
\* add runs at most MaxPathAdds times
MaxPathAdds == 3

\* hist, with paths: the number of paths the sink was given so far
PathHist == ("paths" :> 0) @@ NoHist

PathInit ==
  /\ file = NoFile
  /\ sink = DefaultHandle
  /\ source = DefaultHandle
  /\ sinkW \in Widths
  /\ sourceW = sinkW
  /\ ret = NoRet
  /\ hist = PathHist

\* sink.set_filename(path, shard_bits) with a path that has no file
SinkSetFilenameElsewhere(shard_bits) ==
  \E m \in {set_filename(Call(sink, NoFile, sinkW), shard_bits, TRUE)} :
     /\ hist.paths < MaxPaths
     /\ sink.filepath
     /\ sink' = m.h
     /\ file' = m.f
     /\ ret' = [op |-> "sink.set_filename", err |-> m.err, arg |-> shard_bits]
     /\ hist' = [hist EXCEPT !.paths = @ + 1,
                             !.sinkOk = (m.err = "ok"),
                             !.session = "none",
                             !.fresh = FALSE,
                             !.added = EmptyFn,
                             !.order = <<>>,
                             !.created = [w |-> sinkW, shard_bits |-> shard_bits]]
     /\ UNCHANGED <<source, sinkW, sourceW>>

PathNext ==
  \/ \E shard_bits \in ShardBits : SinkSetFilename(shard_bits)
  \/ \E shard_bits \in ShardBits : SinkSetFilenameElsewhere(shard_bits)
  \/ \E prefix \in Prefixes(sink.shard_bits) :
       \E flt \in {u \in UserFilters(prefix, sink.shard_bits) : u.keys # {} /\ u.fp = {}} :
         hist.adds < MaxPathAdds /\ Add(flt, prefix)

PathSpec == PathInit /\ [][PathNext]_vars

\* the serialized size of what is stored at offset o of file f
StoredBytes(f, w, o) ==
  IF o \in DOMAIN f.body THEN 28 + f.body[o].ArrayLength * (w \div 8) ELSE 28

\* every index entry of f is EMPTY or the offset of a region after the
\* index table of 2^shard_bits slots that ends inside the file
InBounds(f, w, shard_bits) ==
  \A p \in DOMAIN f.ix :
    \/ f.ix[p] = empty_offset
    \/ /\ 16 + 8 * Pow2(shard_bits) <= f.ix[p]
       /\ f.ix[p] + StoredBytes(f, w, f.ix[p]) <= f.size

\* C27: index entries stay in bounds. After a sink open that returned and
\* after every add that returned, every index entry of the file is EMPTY or
\* an offset o with 16 + 8 * max_shards <= o and o + the serialized size of
\* the filter stored there <= the size of the file.
C27_IndexEntriesInBounds ==
  (ret.op \in {"sink.set_filename", "add"} /\ ret.err = "ok")
    => InBounds(file, sinkW, sink.shard_bits)

\* C27 while the sink has not been given a second path
C27_InBoundsOnFirstPath == hist.paths = 0 => C27_IndexEntriesInBounds

\* the byte ranges of the non-EMPTY index entries of slots p and q of f are
\* disjoint (so the two offsets differ)
Apart(f, w, p, q) ==
  \/ f.ix[p] + StoredBytes(f, w, f.ix[p]) <= f.ix[q]
  \/ f.ix[q] + StoredBytes(f, w, f.ix[q]) <= f.ix[p]

\* C28: shard regions never overlap. After any sequence of add calls,
\* returned or failed, on a file a sink created, the byte ranges
\* [o, o + serialized size) of two distinct non-EMPTY index entries are
\* disjoint, and no two entries hold the same offset.
C28_ShardRegionsDisjoint ==
  \A p \in DOMAIN file.ix, q \in DOMAIN file.ix :
    (p # q /\ file.ix[p] # empty_offset /\ file.ix[q] # empty_offset)
      => file.ix[p] # file.ix[q] /\ Apart(file, sinkW, p, q)

\* C28 while the sink has not been given a second path
C28_DisjointOnFirstPath == hist.paths = 0 => C28_ShardRegionsDisjoint

\* f is the file a sink of width w and shard_bits creates: 16 + 8 * 2^shard_bits
\* bytes, the tag 'sbinfuse', w as 2 digits and '-' at its start (the digits
\* of the shard count are the matter of C9), every index entry EMPTY and no
\* shard body
CreatedEmpty(f, w, shard_bits) ==
  /\ f.exists
  /\ f.size = 16 + 8 * Pow2(shard_bits)
  /\ Len(f.hdr) = 16
  /\ SubSeq(f.hdr, 1, 11) =
       <<115, 98, 105, 110, 102, 117, 115, 101>> \o ZeroPadded(w, 2) \o <<45>>
  /\ \A p \in DOMAIN f.ix : f.ix[p] = empty_offset
  /\ f.body = EmptyFn

\* the step is a set_filename of the sink on a path that has no file
OpensMissing ==
  /\ ret'.op = "sink.set_filename"
  /\ ~file.exists \/ hist'.paths # hist.paths

\* C29: sink creation. Opening a sink on a path that has no file, with a
\* new handle or with set_filename of a handle in whatever state, returns
\* and leaves a file of 16 + 8 * max_shards bytes with the type tag and an
\* index of EMPTY entries only, before any shard body is written; shards()
\* is 0.
C29_SinkCreation ==
  [][OpensMissing
       => /\ ret'.err = "ok"
          /\ CreatedEmpty(file', sinkW, ret'.arg)
          /\ shards(sink') = 0
    ]_vars

\* C29 for the handles whose index holds no entry: new ones, and ones
\* that loaded files without shards only
C29_CreationWithoutEntries ==
  [][(OpensMissing /\ sink.index.ent = EmptyFn)
       => /\ ret'.err = "ok"
          /\ CreatedEmpty(file', sinkW, ret'.arg)
          /\ shards(sink') = 0
    ]_vars

\* C30 as stated: the file only grows, and shards are appended at its end.
\* No call on the sink makes the file smaller; an add(filter, p) that
\* returns has stored the size the file had before the call as the offset
\* of slot p and has made the file longer by exactly the serialized size of
\* the filter.
C30_FileGrowsByAppending ==
  [][/\ ret'.op \in {"add", "sink.set_filename"} => file'.size >= file.size
     /\ (ret'.op = "add" /\ hist'.adds # hist.adds /\ ret'.err = "ok")
          => /\ filter_offset(file', ret'.arg) = file.size
             /\ file'.size = file.size + 28
                               + hist'.added[ret'.arg].ArrayLength * (sinkW \div 8)
             /\ file'.body[file.size] = hist'.added[ret'.arg]
    ]_vars

(***************************************************************************)
(* A sink on a path where an empty file may be found: the open fails in    *)
(* map_whole_file, filepath_ and shard_bits_ stay set, and the first add   *)
(* writes header and index itself (ensure_header).                         *)
(***************************************************************************)
\* add runs at most MaxLazyAdds times
MaxLazyAdds == 3

\* a file of no bytes
EmptyFile == [NoFile EXCEPT !.exists = TRUE]

LazyInit ==
  /\ file \in {NoFile, EmptyFile}
  /\ sink = DefaultHandle
  /\ source = DefaultHandle
  /\ sinkW \in Widths
  /\ sourceW = sinkW
  /\ ret = NoRet
  /\ hist = NoHist

LazyNext ==
  \/ \E shard_bits \in ShardBits : SinkSetFilename(shard_bits)
  \/ \E prefix \in Prefixes(sink.shard_bits) :
       \E flt \in {u \in UserFilters(prefix, sink.shard_bits) : u.keys # {} /\ u.fp = {}} :
         hist.adds < MaxLazyAdds /\ Add(flt, prefix)

LazySpec == LazyInit /\ [][LazyNext]_vars

\* the size of f once header and index of 2^shard_bits slots are there
SizeWithHeader(f, shard_bits) ==
  IF f.size = 0 THEN 16 + 8 * Pow2(shard_bits) ELSE f.size

\* C30, amended: the file only grows, and shards are appended at its end.
\* No call on the sink makes the file smaller; an add(filter, p) that
\* returns has stored, as the offset of slot p, the size of the file before
\* the call, or 16 + 8 * max_shards when it found the file empty and wrote
\* header and index itself, and has left the file exactly the serialized
\* size of the filter longer than that offset.
C30_FileGrowsFromHeader ==
  [][/\ ret'.op \in {"add", "sink.set_filename"} => file'.size >= file.size
     /\ (ret'.op = "add" /\ hist'.adds # hist.adds /\ ret'.err = "ok")
          => /\ filter_offset(file', ret'.arg) = SizeWithHeader(file, sink'.shard_bits)
             /\ file'.size = SizeWithHeader(file, sink'.shard_bits) + 28
                               + hist'.added[ret'.arg].ArrayLength * (sinkW \div 8)
             /\ file'.body[filter_offset(file', ret'.arg)] = hist'.added[ret'.arg]
    ]_vars

\* the third add has returned: it follows a shard and the bytes a failed add
\* left behind in a file whose header the first add wrote, and its shard
\* ends where the file ends
C30_Witness ==
  /\ ret.op = "add" /\ ret.err = "ok"
  /\ ~hist.sinkOk /\ hist.created.w = 0
  /\ hist.adds = 3 /\ Len(hist.order) = 2
  /\ file.ix[hist.order[1]] = 16 + 8 * Pow2(sink.shard_bits)
  /\ file.ix[ret.arg] > file.ix[hist.order[1]] + StoredBytes(file, sinkW, file.ix[hist.order[1]])
  /\ file.ix[ret.arg] + StoredBytes(file, sinkW, file.ix[ret.arg]) = file.size

\* C31: frame of add. An add(filter, p) that returns has changed, in the
\* file, index entry p and the bytes from the old end of the file on, and
\* nothing else: the header, every other index entry and every shard body
\* that was there are as before. contains(k) for the keys of the other
\* slots is what it was, on a source opened on the file, and on the sink
\* when all its filters pointed into its map before the call.
C31_FrameOfAdd ==
  [][(ret'.op = "add" /\ hist'.adds # hist.adds /\ ret'.err = "ok")
       => /\ file.size >= header_length => file'.hdr = file.hdr
          /\ \A q \in 0..(max_shards(sink'.shard_bits) - 1) :
               (q # ret'.arg /\ filter_index_offset(q) + OffsetBytes <= file.size)
                 => filter_offset(file', q) = filter_offset(file, q)
          /\ \A o \in DOMAIN file.body : o \in DOMAIN file'.body /\ file'.body[o] = file.body[o]
          /\ \A o \in (DOMAIN file'.body) \ (DOMAIN file.body) : o >= file.size
          /\ \A k \in Keys :
               extract_prefix(k, sink'.shard_bits) # ret'.arg
                 => /\ contains(set_filename(Call(DefaultHandle, file', sinkW),
                                             sink'.shard_bits, FALSE).h, file', k)
                       = contains(set_filename(Call(DefaultHandle, file, sinkW),
                                               sink'.shard_bits, FALSE).h, file, k)
                    /\ (hist.sinkOk /\ Outlived(sink) = {})
                         => contains(sink', file', k) = contains(sink, file, k)
    ]_vars

\* the second add has returned, into the slot that was empty, and the sink
\* still finds a key of the first shard
C31_Witness ==
  /\ ret.op = "add" /\ ret.err = "ok"
  /\ hist.adds = 2 /\ Len(hist.order) = 2
  /\ ret.arg = hist.order[2]
  /\ \E k \in hist.added[hist.order[1]].keys : contains(sink, file, k) = {"true"}

\* the slots of f that are not EMPTY
PopulatedSlots(f) == {p \in DOMAIN f.ix : f.ix[p] # empty_offset}

\* C32: an occupied slot is found after the resize and the remap. Whenever
\* an add(filter, p) on the sink fails with SlotOccupied, slot p was not
\* EMPTY, the file has grown by the serialized size of the filter, header,
\* index and shard bodies are as before, every shard an index entry refers
\* to ends at or before the old end of the file, and a source opens the
\* file without error and finds the same shards() and the same answer of
\* contains for every key as on the file before the call.
C32_OccupiedSlotFoundAfterResize ==
  /\ \A p \in Prefixes(sink.shard_bits) :
       \A flt \in UserFilters(p, sink.shard_bits) :
         LET m == add(Call(sink, file, sinkW), flt, p)
             s0 == set_filename(Call(DefaultHandle, file, sinkW), sink.shard_bits, FALSE)
             s1 == set_filename(Call(DefaultHandle, m.f, sinkW), sink.shard_bits, FALSE)
         IN m.err = "SlotOccupied" =>
              /\ filter_offset(file, p) # empty_offset
              /\ m.f.size = file.size + 28 + flt.ArrayLength * (sinkW \div 8)
              /\ m.f.hdr = file.hdr /\ m.f.ix = file.ix /\ m.f.body = file.body
              /\ \A q \in PopulatedSlots(m.f) :
                   m.f.ix[q] + StoredBytes(m.f, sinkW, m.f.ix[q]) <= file.size
              /\ s0.err = "ok" /\ s1.err = "ok"
              /\ shards(s1.h) = shards(s0.h)
              /\ \A k \in Keys : contains(s1.h, m.f, k) = contains(s0.h, file, k)
  /\ (ret.op = "add" /\ ret.err = "SlotOccupied")
       => \A q \in PopulatedSlots(file) :
            file.ix[q] + StoredBytes(file, sinkW, file.ix[q]) + 28 <= file.size

\* an add has just been turned away from the occupied slot of a file with
\* one shard, which a source still opens and finds a key in
C32_Witness ==
  /\ ret.op = "add" /\ ret.err = "SlotOccupied"
  /\ hist.adds = 2 /\ Len(hist.order) = 1 /\ ret.arg = hist.order[1]
  /\ file.size > file.ix[ret.arg] + StoredBytes(file, sinkW, file.ix[ret.arg])
  /\ OpenedSource(sinkW, sink.shard_bits).err = "ok"
  /\ \E k \in Keys : contains(OpenedSource(sinkW, sink.shard_bits).h, file, k) = {"true"}

\* every key of stream_keys_ of handle h routes to stream_last_prefix_
BufferRouted(h) ==
  \A k \in Range(h.stream_keys_) : extract_prefix(k, h.shard_bits) = h.stream_last_prefix_

\* C33: routing law in the streaming buffer. From stream_prepare on, through
\* every stream_add and stream_finalize, returned or failed, every key held
\* in stream_keys_ has the prefix stream_last_prefix_; and every shard a
\* streaming call adds holds only keys that route to the slot it is added
\* under.
C33_BufferRoutesToLastPrefix ==
  [][/\ hist'.session # "none" => BufferRouted(sink')
     /\ (ret'.op \in {"stream_add", "stream_finalize"} /\ hist'.order # hist.order)
          => LET p == hist'.order[Len(hist'.order)]
             IN \A k \in hist'.added[p].keys : extract_prefix(k, sink'.shard_bits) = p
    ]_vars

\* the law in every state, a session or not
C33_BufferRoutedAlways == BufferRouted(sink)

\* two keys of slot 1 are buffered after the flush that the first of them
\* caused
C33_Witness ==
  /\ hist.session = "open"
  /\ Len(sink.stream_keys_) = 2
  /\ sink.stream_last_prefix_ = 1
  /\ Len(hist.order) = 1
  /\ ret.op = "stream_add" /\ ret.err = "ok"

\* the streaming call of this step calls add: stream_add for a key that it
\* admits and whose prefix is not stream_last_prefix_, stream_finalize with
\* keys in stream_keys_
EmitsAdd ==
  \/ /\ ret'.op = "stream_add"
     /\ ret'.err # "KeyOutOfOrder"
     /\ extract_prefix(ret'.arg, sink.shard_bits) # sink.stream_last_prefix_
  \/ /\ ret'.op = "stream_finalize"
     /\ sink.stream_keys_ # <<>>

\* C34: add calls of a streaming session. In a session on a fresh sink in
\* which no call has failed so far, a stream_add or stream_finalize that
\* calls add calls it for stream_last_prefix_, which is greater than every
\* prefix the session has added before, so no prefix is added twice; the
\* call does not fail with SlotOccupied or CapacityExceeded, and the shard
\* it adds is the next one of the session.
C34_StreamPrefixesIncrease ==
  [][(/\ hist.fresh /\ hist.session = "open"
      /\ ret'.op \in {"stream_add", "stream_finalize"}
      /\ (hist'.nstream # hist.nstream \/ hist'.finalizes # hist.finalizes))
       => /\ ret'.err \notin {"SlotOccupied", "CapacityExceeded"}
          /\ EmitsAdd => \A i \in DOMAIN hist.order : hist.order[i] < sink.stream_last_prefix_
          /\ hist'.order # hist.order
               => EmitsAdd /\ hist'.order = Append(hist.order, sink.stream_last_prefix_)
          /\ (EmitsAdd /\ ret'.err = "ok") => hist'.order # hist.order
    ]_vars

\* a session that added slot 0 in stream_add and slot 1 in stream_finalize
C34_Witness ==
  /\ hist.fresh /\ hist.session = "done"
  /\ ret.op = "stream_finalize" /\ ret.err = "ok"
  /\ hist.order = <<0, 1>>
  /\ hist.added[0].keys # {}
  /\ shards(sink) = 2

\* ---------------------------------------------------------------------
\* streaming sessions on a sink whose file holds shards of earlier add
\* calls; the filters are without false positives

MaxResumeAdds == 1

\* base: the file when the session was prepared; resumed: the sink was open
\* then and the file held a shard
ResumeHist == ("base" :> NoFile) @@ ("resumed" :> FALSE) @@ NoHist

ResumeInit ==
  /\ file = NoFile
  /\ sink = DefaultHandle
  /\ source = DefaultHandle
  /\ sinkW \in Widths
  /\ sourceW = sinkW
  /\ ret = NoRet
  /\ hist = ResumeHist

\* stream_prepare on a sink whose file may hold shards
ResumePrepare ==
  \E m \in {stream_prepare(Call(sink, file, sinkW))} :
     /\ sink' = m.h
     /\ ret' = [op |-> "stream_prepare", err |-> m.err, arg |-> 0]
     /\ hist' = [hist EXCEPT !.session = "open", !.fed = <<>>, !.admitted = <<0, 0>>,
                             !.fresh = hist.sinkOk /\ DOMAIN file.ix = {},
                             !.base = file,
                             !.resumed = hist.sinkOk /\ PopulatedSlots(file) # {}]
     /\ UNCHANGED <<file, source, sinkW, sourceW>>

ResumeNext ==
  \/ \E shard_bits \in ShardBits : SinkSetFilename(shard_bits)
  \/ \E prefix \in Prefixes(sink.shard_bits) :
       \E flt \in {u \in UserFilters(prefix, sink.shard_bits) : u.keys # {} /\ u.fp = {}} :
         hist.adds < MaxResumeAdds /\ hist.nstream = 0 /\ Add(flt, prefix)
  \/ ResumePrepare
  \/ \E key \in Keys, fp \in {{}} : hist.session = "open" /\ StreamAdd(key, fp)
  \/ \E fp \in {{}} : hist.session = "open" /\ StreamFinalize(fp)

ResumeSpec == ResumeInit /\ [][ResumeNext]_vars

\* the shards of the file the session started on are in f where they were,
\* and handle h finds their keys
BaseKept(h, f) ==
  \A p \in PopulatedSlots(hist.base) :
    /\ p \in DOMAIN f.ix /\ f.ix[p] = hist.base.ix[p]
    /\ f.ix[p] \in DOMAIN f.body /\ f.body[f.ix[p]] = hist.base.body[f.ix[p]]
    /\ \A k \in hist.base.body[f.ix[p]].keys : contains(h, f, k) = {"true"}

\* a call of a session on a file that held shards, all keys of the session
\* so far routing to slots that were EMPTY when it was prepared:
\* stream_finalize, or stream_add with one more such key that is not below
\* the last one
ResumedCall ==
  /\ hist.resumed /\ hist.session = "open"
  /\ \A k \in Range(hist.fed) :
       extract_prefix(k, sink.shard_bits) \notin PopulatedSlots(hist.base)
  /\ \/ ret'.op = "stream_finalize" /\ hist'.finalizes # hist.finalizes
     \/ /\ ret'.op = "stream_add" /\ hist'.nstream # hist.nstream
        /\ ~Below(ret'.arg, hist.admitted)
        /\ extract_prefix(ret'.arg, sink.shard_bits) \notin PopulatedSlots(hist.base)

\* C35: resumed build. On a sink opened on a file that holds shards, every
\* call of a streaming session of non-decreasing keys that route to slots
\* EMPTY in that file returns; the shards the file held stay where they
\* were and their keys are found; and after stream_finalize the non-EMPTY
\* slots are those of the file before and the slots of the keys.
C35_ResumedBuild ==
  [][ResumedCall
       => /\ ret'.err = "ok"
          /\ BaseKept(sink', file')
          /\ hist'.session = "done"
               => PopulatedSlots(file') =
                    PopulatedSlots(hist.base)
                      \cup {extract_prefix(k, sink'.shard_bits) : k \in Range(hist'.fed)}
    ]_vars

\* C35 for the sessions whose first key routes to slot 0, or that start on
\* a file whose slot 0 is EMPTY
C35_ResumedBuildFromSlotZero ==
  [][(/\ ResumedCall
      /\ \/ 0 \notin PopulatedSlots(hist.base)
         \/ hist.fed # <<>> /\ extract_prefix(hist.fed[1], sink.shard_bits) = 0
         \/ hist.fed = <<>> /\ ret'.op = "stream_add"
                            /\ extract_prefix(ret'.arg, sink.shard_bits) = 0)
       => /\ ret'.err = "ok"
          /\ BaseKept(sink', file')
          /\ hist'.session = "done"
               => PopulatedSlots(file') \ {0} =
                    (PopulatedSlots(hist.base)
                      \cup {extract_prefix(k, sink'.shard_bits) : k \in Range(hist'.fed)}) \ {0}
    ]_vars

\* a session that added slot 0 to a file that held slot 1
C35_ResumedOnSlotOne ==
  /\ hist.resumed /\ hist.session = "done"
  /\ PopulatedSlots(hist.base) = {1}
  /\ PopulatedSlots(file) = {0, 1}
  /\ ret.op = "stream_finalize" /\ ret.err = "ok"

\* C36: a rejected key changes nothing. A stream_add that throws
\* KeyOutOfOrder leaves the sink (stream_keys_, stream_last_prefix_,
\* stream_last_key_ and all else) and the file as they were and adds no
\* shard; from the state it leaves, stream_add of any key that is not below
\* stream_last_key_ is not turned away as out of order, and neither is such
\* a stream_add when it is the next call.
C36_RejectedKeyChangesNothing ==
  [][/\ (ret'.op = "stream_add" /\ hist'.nstream # hist.nstream /\ ret'.err = "KeyOutOfOrder")
          => /\ sink' = sink
             /\ file' = file
             /\ hist'.order = hist.order /\ hist'.added = hist.added
             /\ hist'.fed = hist.fed
             /\ \A key \in Keys : \A fp \in FalsePositives(Range(sink'.stream_keys_)) :
                  ~KeyLess(key, sink.stream_last_key_)
                    => stream_add(Call(sink', file', sinkW), key, fp).err # "KeyOutOfOrder"
     /\ (/\ ret.op = "stream_add" /\ ret.err = "KeyOutOfOrder"
         /\ ret'.op = "stream_add" /\ hist'.nstream # hist.nstream
         /\ ~KeyLess(ret'.arg, sink.stream_last_key_))
          => /\ ret'.err # "KeyOutOfOrder"
             /\ sink'.stream_last_key_ = ret'.arg
    ]_vars

\* a key was turned away while keys are buffered, and the session goes on
C36_Witness ==
  /\ ret.op = "stream_add" /\ ret.err = "KeyOutOfOrder"
  /\ hist.session = "open"
  /\ hist.nstream = 2
  /\ Len(sink.stream_keys_) = 1
  /\ KeyLess(ret.arg, sink.stream_last_key_)

\* ---------------------------------------------------------------------
\* stream_finalize called again

MaxFinalizeCalls == 2

\* stream_finalize as the call that follows a stream_finalize
StreamFinalizeAgain(fp) ==
  \E m \in {stream_finalize(Call(sink, file, sinkW), fp)},
     flt \in {populate(Range(sink.stream_keys_), Len(sink.stream_keys_), fp)} :
     /\ ret.op = "stream_finalize"
     /\ hist.finalizes < MaxFinalizeCalls
     /\ sink' = m.h
     /\ file' = m.f
     /\ ret' = [op |-> "stream_finalize", err |-> m.err, arg |-> 0]
     /\ hist' = [Flushed(m, flt, sink.stream_last_prefix_) EXCEPT
                   !.finalizes = @ + 1,
                   !.session = IF m.err = "ok" THEN @ ELSE "failed"]
     /\ UNCHANGED <<source, sinkW, sourceW>>

\* streaming sessions whose filters are without false positives, with
\* stream_finalize called once or twice
FinalizeNext ==
  \/ \E shard_bits \in ShardBits : SinkSetFilename(shard_bits)
  \/ StreamPrepare
  \/ \E key \in Keys, fp \in {{}} : StreamAdd(key, fp)
  \/ \E fp \in {{}} : StreamFinalize(fp)
  \/ \E fp \in {{}} : StreamFinalizeAgain(fp)

FinalizeSpec == Init /\ [][FinalizeNext]_vars

\* this step is a call of stream_finalize
FinalizeCall == ret'.op = "stream_finalize" /\ hist'.finalizes # hist.finalizes

\* what one stream_finalize does: with keys in stream_keys_ it calls add
\* once, for stream_last_prefix_ and a filter of those keys, and when that
\* returns the file has that shard more; with no keys it returns and leaves
\* the file as it was
FinalizeOnce ==
  /\ sink.stream_keys_ = <<>>
       => ret'.err = "ok" /\ file' = file /\ hist'.order = hist.order
  /\ (sink.stream_keys_ # <<>> /\ ret'.err = "ok" /\ hist.sinkOk)
       => /\ hist'.order = Append(hist.order, sink.stream_last_prefix_)
          /\ hist'.added[sink.stream_last_prefix_].keys = Range(sink.stream_keys_)
          /\ PopulatedSlots(file') = PopulatedSlots(file) \cup {sink.stream_last_prefix_}

\* C37: stream_finalize. It calls add once, for stream_last_prefix_ with the
\* keys of stream_keys_, when there are keys, and does not call it when
\* there are none; a stream_finalize that follows a stream_finalize that
\* returned adds no shard, returns, and leaves the file as it was.
C37_FinalizeTwice ==
  [][FinalizeCall
       => /\ FinalizeOnce
          /\ (ret.op = "stream_finalize" /\ ret.err = "ok")
               => ret'.err = "ok" /\ file' = file /\ hist'.order = hist.order
    ]_vars

\* C37 without its second part: every call of stream_finalize does what one
\* stream_finalize does
C37_FinalizeOnce == [][FinalizeCall => FinalizeOnce]_vars

\* the second stream_finalize of a session that buffered no key returns
C37_SecondFinalizeOfNoKeys ==
  /\ hist.finalizes = 2 /\ ret.op = "stream_finalize" /\ ret.err = "ok"
  /\ sink.stream_keys_ = <<>> /\ hist.session = "done"

\* C38: stream_prepare. From whatever state the sink is in, after
\* stream_prepare stream_keys_ is empty, stream_last_prefix_ is 0 and
\* stream_last_key_ is 0, and nothing else of the sink has changed; the file
\* is as it was and no shard was added, and a stream_finalize that follows
\* adds none either: the keys that were buffered are gone.
C38_PrepareResets ==
  [][ret'.op = "stream_prepare"
       => /\ sink'.stream_keys_ = <<>>
          /\ sink'.stream_last_prefix_ = 0
          /\ sink'.stream_last_key_ = <<0, 0>>
          /\ sink' = [sink EXCEPT !.stream_keys_ = <<>>,
                                  !.stream_last_prefix_ = 0,
                                  !.stream_last_key_ = <<0, 0>>]
          /\ file' = file
          /\ hist'.order = hist.order /\ hist'.added = hist.added
          /\ \E m \in {stream_finalize(Call(sink', file', sinkW), {})} :
               m.err = "ok" /\ m.f = file /\ m.h = sink'
    ]_vars

\* stream_prepare after a stream_add on an open sink whose file holds no
\* shard: the key that was buffered is gone
C38_Witness ==
  /\ ret.op = "stream_prepare"
  /\ hist.nstream = 1 /\ hist.sinkOk /\ sink.shard_bits = 1
  /\ hist.finalizes = 0
  /\ PopulatedSlots(file) = {}
  /\ sink.stream_keys_ = <<>>

\* ---------------------------------------------------------------------
\* routing

\* the upper 16 bits of the keys that routing is checked for: the ends and
\* the middle of the range, and the neighbours of the slot boundaries
RoutingHis == {0, 1, 2, 3, 255, 256, 16383, 16384, 32767, 32768, 49151, 49152, 65534, 65535}
RoutingKeys == {<<hi, lo>> : hi \in RoutingHis, lo \in KeyLos}

\* handle h does not index filters out of bounds for any key
IndexesInBounds(h) ==
  /\ h.filters.len = max_shards(h.shard_bits)
  /\ \A k \in RoutingKeys :
       /\ extract_prefix(k, h.shard_bits) < h.filters.len
       /\ contains_reads(h, k) \subseteq {h.filters.ent[p].ptr : p \in DOMAIN h.filters.ent}

\* extract_prefix of key k under B shard_bits is the upper B bits of k: the
\* largest p with p * 2^(64 - B) <= k, stated on the upper 16 bits of the
\* key (the lower 48 are below 2^48); and it is below max_shards = 2^B
UpperBits(k, B) ==
  LET p == extract_prefix(k, B)
  IN /\ p * Pow2(16 - B) <= k[1]
     /\ k[1] < (p + 1) * Pow2(16 - B)
     /\ 0 <= p /\ p < max_shards(B)
     /\ max_shards(B) = Pow2(B)

\* C39: routing is total and in range. For the shard_bits B of every handle,
\* which is each of 1..16, and every key, extract_prefix is
\* floor(key / 2^(64 - B)), the upper B bits of the key, and it is below
\* max_shards = 2^B. On a sink or a source whose set_filename returned,
\* filters has max_shards entries and contains indexes it inside them.
C39_RoutingInRange ==
  /\ \A h \in {sink, source} :
       /\ h.shard_bits \in AllShardBits
       /\ \A k \in RoutingKeys : UpperBits(k, h.shard_bits)
  /\ hist.sinkOk => IndexesInBounds(sink)
  /\ hist.sourceOk => IndexesInBounds(source)

\* a sink of 16 shard_bits: the last key routes to the last of 65536 slots
C39_Witness ==
  /\ hist.sinkOk /\ sink.shard_bits = 16 /\ sink.filters.len = 65536
  /\ extract_prefix(<<65535, 1>>, sink.shard_bits) = 65535
  /\ contains(sink, file, <<65535, 1>>) = {"false"}

====
